---------------------------- MODULE Spec2Model ----------------------------
(***************************************************************************)
(* A model of the filter / prediction-model pipeline of nbody-relaxed:     *)
(*   relaxed/halo_filters.py  (intersect, HaloFilter)                      *)
(*   relaxed/models.py        (PredictionModel hierarchy, training_suite)  *)
(*                                                                         *)
(* Arrays are modelled by what the code looks at: their shape, whether     *)
(* they hold NaN or negative values, the scale they are in                 *)
(* (raw, log, quantile-normal) and the data set they come from.  A Python  *)
(* exception is the field err of an outcome ("none" when the call          *)
(* returns).                                                               *)
(***************************************************************************)
EXTENDS Integers, Sequences, FiniteSets, TLC

VARIABLES
    ids1, ids2, indx_ok,        \* intersect: the two id arrays and its outcome
    model, result, fit_calls,   \* one PredictionModel instance, the last call's
                                \* outcome, the number of fit calls made on it
    data, pc, cursor, trained_models, returned,   \* training_suite
    hcat, new_hcat, call,       \* HaloFilter.__call__: source object, result, outcome
    built, applied,             \* a filter builder's outcome; a predicate applied
    hparam, pcall, first_got,   \* one Param object, the last call on it, and what
                                \* its first get_values call returned
    cam, cam_call,              \* one CAM object with its interpolation tables, and
                                \* the last call on it
    id_call, subcat,            \* an id filter applied to a catalog, and the
                                \* outcome of create_subhalo_cat
    pline, line_call, added,    \* one ProgenitorLine, the last call on it, and the
                                \* tuples its add calls accepted
    pf, fpos, prog_line, yielded, gen   \* get_prog_lines_generator: the file, the
                                \* lines read, its local, the lines it yielded, how
                                \* it ended

vars == <<ids1, ids2, indx_ok, model, result, fit_calls, data, pc, cursor, trained_models,
          returned, hcat, new_hcat, call, built, applied,
          hparam, pcall, first_got, cam, cam_call,
          id_call, subcat,
          pline, line_call, added,
          pf, fpos, prog_line, yielded, gen>>

intersectVars == <<ids1, ids2, indx_ok>>
modelVars     == <<model, result, fit_calls>>
suiteVars     == <<data, pc, cursor, trained_models, returned>>
filterVars    == <<hcat, new_hcat, call>>
builderVars   == <<built, applied>>
paramVars     == <<hparam, pcall, first_got>>
camVars       == <<cam, cam_call>>
subhaloVars   == <<id_call, subcat>>
lineVars      == <<pline, line_call, added>>
genVars       == <<pf, fpos, prog_line, yielded, gen>>

\* The variables of the other parts, which a step of one part leaves alone.
notIntersectVars == <<modelVars, suiteVars, filterVars, builderVars, paramVars,
                      camVars, subhaloVars, lineVars, genVars>>
notModelVars     == <<intersectVars, suiteVars, filterVars, builderVars, paramVars,
                      camVars, subhaloVars, lineVars, genVars>>
notSuiteVars     == <<intersectVars, modelVars, filterVars, builderVars, paramVars,
                      camVars, subhaloVars, lineVars, genVars>>
notFilterVars    == <<intersectVars, modelVars, suiteVars, builderVars, paramVars,
                      camVars, subhaloVars, lineVars, genVars>>
notBuilderVars   == <<intersectVars, modelVars, suiteVars, filterVars, paramVars,
                      camVars, subhaloVars, lineVars, genVars>>
notParamVars     == <<intersectVars, modelVars, suiteVars, filterVars, builderVars,
                      camVars, subhaloVars, lineVars, genVars>>
notCamVars       == <<intersectVars, modelVars, suiteVars, filterVars, builderVars,
                      paramVars, subhaloVars, lineVars, genVars>>
notSubhaloVars   == <<intersectVars, modelVars, suiteVars, filterVars, builderVars,
                      paramVars, camVars, lineVars, genVars>>
notLineVars      == <<intersectVars, modelVars, suiteVars, filterVars, builderVars,
                      paramVars, camVars, subhaloVars, genVars>>
notGenVars       == <<intersectVars, modelVars, suiteVars, filterVars, builderVars,
                      paramVars, camVars, subhaloVars, lineVars>>

-----------------------------------------------------------------------------
(* Bounds of the model *)

MaxId       == 3    \* ids are 1..MaxId
MaxLen      == 3    \* longest id array
MaxRows     == 2    \* most rows of a data array
MaxFeatures == 2    \* most columns of x / largest n_features
MaxData     == 2    \* number of data sets: one for each fit call on an instance
MaxRuns     == 2    \* most entries of a training_suite data mapping
MaxCat      == 2    \* most rows of a halo catalog
MaxMvir     == 2    \* mvir values are 1..MaxMvir
MaxExp      == 14   \* largest decimal exponent of a halo mass
MaxTables   == 2    \* number of catalogs a Param is evaluated on
MaxTrain    == 3    \* most rows of the data a CAM is fit on
MaxVal      == 3    \* rank statistics and y values of that data are 1..MaxVal
BlockLen    == 2    \* rows of one block of a minh catalog
MaxRoot     == 2    \* tree-root ids and halo ids are 1..MaxRoot
MaxHalos    == 3    \* most tuples of one ProgenitorLine
MaxLines    == 5    \* most lines of a progenitor file

-----------------------------------------------------------------------------
(* numpy arrays, as far as models.py looks at them *)

\* Arrays a caller can pass as x: 1- or 2-dimensional of every shape, and one
\* 3-dimensional shape; finite values (all positive, or some negative) or NaN.
XArrays ==
    { a \in [ndim : 1..3, rows : 1..MaxRows, cols : 0..MaxFeatures,
             content : {"pos", "neg", "nan"}, scale : {"raw"}, tag : 1..MaxData] :
        /\ (a.ndim = 1) <=> (a.cols = 0)
        /\ (a.ndim = 3) => (a.rows = 1 /\ a.cols = 1) }

\* Arrays a caller can pass as y: 1-dimensional, or 2-dimensional with one or
\* two columns.
YArrays ==
    { a \in [ndim : 1..2, rows : 1..MaxRows, cols : 0..2,
             content : {"pos", "neg", "nan"}, scale : {"raw"}, tag : 1..MaxData] :
        (a.ndim = 1) <=> (a.cols = 0) }

HasNaN(a) == a.content = "nan"          \* np.sum(np.isnan(a)) != 0

Size(a) == IF a.ndim = 1 THEN a.rows ELSE a.rows * a.cols

\* a.reshape(-1, 1)
ReshapeColumn(a) == [a EXCEPT !.ndim = 2, !.rows = Size(a), !.cols = 1]

\* a.reshape(-1)
ReshapeFlat(a) == [a EXCEPT !.ndim = 1, !.rows = Size(a), !.cols = 0]

\* np.log(a): NaN stays NaN, a negative entry gives NaN; the log of positive
\* values has either sign.
NpLog(a) ==
    [a EXCEPT !.content = CASE a.content = "pos"  -> "neg"
                            [] a.content = "neg"  -> "nan"
                            [] OTHER              -> a.content,
              !.scale = IF a.scale = "raw" THEN "log" ELSE "other"]

\* np.exp(a)
NpExp(a) ==
    [a EXCEPT !.content = IF a.content = "nan" THEN "nan" ELSE "pos",
              !.scale = IF a.scale = "log" THEN "raw" ELSE "other"]

-----------------------------------------------------------------------------
(* sklearn.preprocessing.QuantileTransformer *)

NoQT == [fit_on |-> 0, n_in |-> 0]      \* the attribute holds None

\* QuantileTransformer(...).fit(a): needs a 2-dimensional array; NaN is ignored.
QTFitOk(a) == a.ndim = 2
QTFit(a)   == [fit_on |-> a.tag, n_in |-> a.cols]

\* qt.transform(a): None has no transform; the column count must match.
QTTransformErr(qt, a) ==
    IF qt = NoQT THEN "AttributeError"
    ELSE IF a.ndim # 2 \/ a.cols # qt.n_in THEN "ValueError"
    ELSE "none"

QTTransform(qt, a) ==
    [a EXCEPT !.content = IF a.content = "nan" THEN "nan" ELSE "neg",
              !.scale = IF a.scale = "raw" THEN "qt" ELSE "other"]

QTInverse(qt, a) ==
    [a EXCEPT !.scale = IF a.scale = "qt" THEN "raw" ELSE "other"]

-----------------------------------------------------------------------------
(* relaxed/models.py: the PredictionModel hierarchy *)

Variants == {"gaussian", "cam", "linear", "lasso", "lognormal"}   \* available_models

\* The classes that derive from PredictionModelTransform.
IsTransform(variant) == variant \in {"linear", "lasso", "gaussian"}

NoModel == [variant |-> "none"]

\* Keyword parameters each constructor accepts besides n_features, and those
\* without a default.
InitParams(variant) ==
    CASE variant = "linear"    -> {"use_qt", "use_logs"}
      [] variant = "gaussian"  -> {"use_qt", "use_logs"}
      [] variant = "lasso"     -> {"alpha", "use_qt", "use_logs"}
      [] variant = "cam"       -> {"mass_bins", "mrange", "cam_order"}
      [] variant = "lognormal" -> {}

RequiredParams(variant) == IF variant = "cam" THEN {"mass_bins", "mrange"} ELSE {}

\* The fit attributes each __init__ sets to None.
InitAttrs(variant) ==
    CASE variant = "linear"    -> {"reg"}
      [] variant = "lasso"     -> {"lasso", "importance"}
      [] variant = "lognormal" -> {"mu", "sigma"}
      [] variant = "gaussian"  -> {"mu1", "mu2", "Sigma", "rho", "sigma_cond"}
      [] variant = "cam"       -> {"an_to_mark", "mark_to_Y"}

\* The attributes each _fit assigns.
FitStores(variant) ==
    CASE variant = "linear"    -> {"reg"}
      [] variant = "lasso"     -> {"lasso", "importance"}
      [] variant = "lognormal" -> {"mu", "sigma"}
      [] variant = "gaussian"  -> {"mu1", "mu2", "Sigma", "rho", "sigma_cond"}
      [] variant = "cam"       -> {"an_to_mark", "mark_to_Y"}

\* The attributes each _predict reads.
PredictReads(variant) ==
    CASE variant = "linear"    -> {"reg"}
      [] variant = "lasso"     -> {"lasso"}
      [] variant = "lognormal" -> {"mu", "sigma"}
      [] variant = "gaussian"  -> {"mu1", "Sigma12", "Sigma22", "mu2"}
      [] variant = "cam"       -> {"mark_to_Y", "an_to_mark"}

Kw(kwargs, key, default) == IF key \in DOMAIN kwargs THEN kwargs[key] ELSE default

\* Mutant of ConstructErr: __init__ without the assertion on use_logs + use_qt.
ConstructErrNoExclusion(variant, n_features, kwargs) ==
    IF ~(DOMAIN kwargs \subseteq InitParams(variant)) THEN "TypeError"
    ELSE IF ~(RequiredParams(variant) \subseteq DOMAIN kwargs) THEN "TypeError"
    ELSE IF variant = "cam" /\ n_features # kwargs["mass_bins"] THEN "AssertionError"
    ELSE IF ~(n_features > 0) THEN "AssertionError"
    ELSE IF variant = "cam" /\ Kw(kwargs, "cam_order", -1) \notin {-1, 1}
         THEN "AssertionError"
    ELSE IF variant = "cam" /\ kwargs["mrange"] # 2 THEN "AssertionError"
    ELSE "none"

\* PredictionModel.__init__ .. CAM.__init__: the outcome of
\* available_models[variant](n_features, **kwargs).  Booleans are 0 / 1, alpha
\* is in tenths, mass_bins and mrange are given by their lengths.
ConstructErr(variant, n_features, kwargs) ==
    IF ~(DOMAIN kwargs \subseteq InitParams(variant)) THEN "TypeError"
    ELSE IF ~(RequiredParams(variant) \subseteq DOMAIN kwargs) THEN "TypeError"
    ELSE IF variant = "cam" /\ n_features # kwargs["mass_bins"] THEN "AssertionError"
    ELSE IF ~(n_features > 0) THEN "AssertionError"
    ELSE IF IsTransform(variant)
            /\ ~(Kw(kwargs, "use_logs", 0) + Kw(kwargs, "use_qt", 0) <= 1)
         THEN "AssertionError"
    ELSE IF variant = "cam" /\ Kw(kwargs, "cam_order", -1) \notin {-1, 1}
         THEN "AssertionError"
    ELSE IF variant = "cam" /\ kwargs["mrange"] # 2 THEN "AssertionError"
    ELSE "none"

Construct(variant, n_features, kwargs) ==
    [variant    |-> variant,
     n_features |-> n_features,
     trained    |-> FALSE,
     use_qt     |-> IsTransform(variant) /\ Kw(kwargs, "use_qt", 0) = 1,
     use_logs   |-> IsTransform(variant) /\ Kw(kwargs, "use_logs", 0) = 1,
     alpha      |-> IF variant = "lasso" THEN Kw(kwargs, "alpha", 1) ELSE 0,
     cam_order  |-> IF variant = "cam" THEN Kw(kwargs, "cam_order", -1) ELSE 0,
     qt_x       |-> NoQT,
     qt_y       |-> NoQT,
     attrs      |-> [a \in InitAttrs(variant) |-> 0]]

Outcome(m, err) == [m |-> m, err |-> err]

\* LinearRegression._fit .. CAM._fit.  singular: the data make Sigma22 singular.
\* gaussian: assert_equal(y, z[:, 0]) needs a 1-dimensional y, and the covariance
\* of a single row is NaN.  cam: get_an_from_am gives one value per row (the
\* assertion after it), marks[1] needs two rows, and an_to_mark is assigned
\* before interp1d(marks, y_sort) rejects a 2-dimensional y.
InnerFit(m, x, y, singular) ==
    LET stored == [a \in DOMAIN m.attrs \cup FitStores(m.variant) |->
                      IF a \in FitStores(m.variant) THEN y.tag ELSE m.attrs[a]]
        done   == Outcome([m EXCEPT !.attrs = stored], "none")
    IN  CASE m.variant \in {"linear", "lasso"} ->
               done
          [] m.variant = "lognormal" ->
               IF y.content # "pos" THEN Outcome(m, "AssertionError") ELSE done
          [] m.variant = "gaussian" ->
               IF y.ndim # 1 THEN Outcome(m, "AssertionError")
               ELSE IF x.rows < 2 THEN Outcome(m, "AssertionError")
               ELSE IF singular THEN Outcome(m, "LinAlgError")
               ELSE done
          [] m.variant = "cam" ->
               IF x.rows < 2 THEN Outcome(m, "IndexError")
               ELSE IF y.ndim # 1
                    THEN Outcome([m EXCEPT !.attrs["an_to_mark"] = y.tag], "ValueError")
               ELSE done

\* Mutant of BaseFit: trained is set before _fit is called.
BaseFitTrainedFirst(m, x, y, singular) ==
    IF HasNaN(x) \/ HasNaN(y) THEN Outcome(m, "AssertionError")
    ELSE IF x.rows # y.rows THEN Outcome(m, "AssertionError")
    ELSE IF ~(y.ndim = 1 \/ y.cols = 1) THEN Outcome(m, "AssertionError")
    ELSE IF x.ndim # 2 THEN Outcome(m, "AssertionError")
    ELSE IF x.cols # m.n_features THEN Outcome(m, "AssertionError")
    ELSE InnerFit([m EXCEPT !.trained = TRUE], x, y, singular)

\* PredictionModel.fit
BaseFit(m, x, y, singular) ==
    IF HasNaN(x) \/ HasNaN(y) THEN Outcome(m, "AssertionError")
    ELSE IF x.rows # y.rows THEN Outcome(m, "AssertionError")
    ELSE IF ~(y.ndim = 1 \/ y.cols = 1) THEN Outcome(m, "AssertionError")
    ELSE IF x.ndim # 2 THEN Outcome(m, "AssertionError")
    ELSE IF x.cols # m.n_features THEN Outcome(m, "AssertionError")
    ELSE LET r == InnerFit(m, x, y, singular)
         IN  IF r.err # "none" THEN r
             ELSE Outcome([r.m EXCEPT !.trained = TRUE], "none")

\* PredictionModelTransform.fit
TransformFit(m, x, y, singular) ==
    IF m.use_qt THEN
        LET m1 == [m EXCEPT !.qt_y = QTFit(ReshapeColumn(y))]
            m2 == [m1 EXCEPT !.qt_x = QTFit(x)]
        IN  IF ~QTFitOk(x) THEN Outcome(m1, "ValueError")
            ELSE BaseFit(m2, QTTransform(m2.qt_x, x),
                         ReshapeFlat(QTTransform(m2.qt_y, ReshapeColumn(y))), singular)
    ELSE IF m.use_logs THEN BaseFit(m, NpLog(x), NpLog(y), singular)
    ELSE BaseFit(m, x, y, singular)

\* model.fit(x, y), dispatched on the class of the instance.
Fit(m, x, y, singular) ==
    IF IsTransform(m.variant) THEN TransformFit(m, x, y, singular)
    ELSE BaseFit(m, x, y, singular)

\* What a predict call gives back: the error, the number of predictions, their
\* scale, the data sets the quantile transformers that were applied were
\* fitted on (0: none applied) and those of the fitted attributes that were read.
Prediction(err, n, scale, qt_x, qt_y, fit) ==
    [err |-> err, n |-> n, scale |-> scale, qt_x |-> qt_x, qt_y |-> qt_y, fit |-> fit]

Failed(err) == Prediction(err, 0, "none", 0, 0, {})

\* LinearRegression._predict .. CAM._predict: an attribute the instance does
\* not have, or one that still holds None, cannot be used.
InnerPredict(m, x) ==
    IF \E a \in PredictReads(m.variant) : a \notin DOMAIN m.attrs
        THEN Failed("AttributeError")
    ELSE IF \E a \in PredictReads(m.variant) : m.attrs[a] = 0
        THEN Failed(IF m.variant \in {"linear", "lasso"} THEN "AttributeError"
                    ELSE "TypeError")
    ELSE Prediction("none", x.rows,
                    IF m.variant = "lognormal" THEN "raw" ELSE x.scale, 0, 0,
                    {m.attrs[a] : a \in PredictReads(m.variant)})

\* PredictionModel.predict
BasePredict(m, x) ==
    IF x.ndim # 2 THEN Failed("AssertionError")
    ELSE IF x.cols # m.n_features THEN Failed("AssertionError")
    ELSE IF HasNaN(x) THEN Failed("AssertionError")
    ELSE IF ~m.trained THEN Failed("AssertionError")
    ELSE InnerPredict(m, x)

\* PredictionModelTransform.predict
TransformPredict(m, x) ==
    IF m.use_qt THEN
        IF QTTransformErr(m.qt_x, x) # "none" THEN Failed(QTTransformErr(m.qt_x, x))
        ELSE LET p == BasePredict(m, QTTransform(m.qt_x, x))
             IN  IF p.err # "none" THEN p
                 ELSE [p EXCEPT !.scale = QTInverse(m.qt_y, [scale |-> p.scale]).scale,
                                !.qt_x = m.qt_x.fit_on, !.qt_y = m.qt_y.fit_on]
    ELSE IF m.use_logs THEN
        LET p == BasePredict(m, NpLog(x))
        IN  IF p.err # "none" THEN p
            ELSE [p EXCEPT !.scale = NpExp([scale |-> p.scale, content |-> "pos"]).scale]
    ELSE BasePredict(m, x)

\* model.predict(x), dispatched on the class of the instance.
Predict(m, x) ==
    IF IsTransform(m.variant) THEN TransformPredict(m, x) ELSE BasePredict(m, x)

-----------------------------------------------------------------------------
(* One model instance and the calls made on it *)

\* Keyword dictionaries a caller can pass: any subset of these keys; <<>> is a
\* key that is left out.
Kwargs ==
    { [k \in {k \in DOMAIN t : t[k] # <<>>} |-> t[k][1]] :
        t \in [use_qt : {<<>>, <<0>>, <<1>>}, use_logs : {<<>>, <<0>>, <<1>>},
               alpha : {<<>>, <<5>>},
               mass_bins : {<<>>} \cup {<<n>> : n \in 1..MaxFeatures},
               mrange : {<<>>, <<2>>, <<3>>},
               cam_order : {<<>>, <<-1>>, <<0>>, <<1>>}, bogus : {<<>>, <<0>>}] }

\* The condition PredictionModelTransform.__init__ asserts, on the keyword
\* arguments as the caller passed them.
ExclusiveFlags(kwargs) == Kw(kwargs, "use_logs", 0) + Kw(kwargs, "use_qt", 0) <= 1

\* The conditions PredictionModel.fit asserts, on the arguments as the caller
\* passed them.
ValidFitArgs(m, x, y) ==
    /\ ~HasNaN(x) /\ ~HasNaN(y)
    /\ x.rows = y.rows
    /\ (y.ndim = 1 \/ y.cols = 1)
    /\ x.ndim = 2
    /\ x.cols = m.n_features

\* The conditions PredictionModel.predict asserts on x, on the argument as the
\* caller passed it.
ValidPredictArgs(m, x) ==
    /\ x.ndim = 2
    /\ x.cols = m.n_features
    /\ ~HasNaN(x)

NoCall == [op |-> "none", err |-> "none", valid |-> TRUE, rows |-> 0, pred |-> Failed("none")]

ModelIdle ==
    /\ model = NoModel
    /\ result = NoCall
    /\ fit_calls = 0

\* No instance has been constructed yet.
ModelInit == ModelIdle

\* model = available_models[variant](n_features, **kwargs)
New(variant, n_features, kwargs) ==
    /\ model = NoModel
    /\ LET err == ConstructErr(variant, n_features, kwargs)
       IN  /\ model' = IF err = "none" THEN Construct(variant, n_features, kwargs)
                       ELSE NoModel
           /\ result' = [NoCall EXCEPT !.op = "init", !.err = err,
                                       !.valid = ExclusiveFlags(kwargs)]
    /\ UNCHANGED <<fit_calls, notModelVars>>

\* model.fit(x, y); the data of the k-th fit call is data set k.
DoFit(x, y, singular) ==
    /\ model # NoModel
    /\ fit_calls < MaxData
    /\ fit_calls' = fit_calls + 1
    /\ LET r == Fit(model, x, y, singular)
       IN  /\ model' = r.m
           /\ result' = [NoCall EXCEPT !.op = "fit", !.err = r.err,
                                       !.valid = ValidFitArgs(model, x, y)]
    /\ UNCHANGED notModelVars

\* model.predict(x)
DoPredict(x) ==
    /\ model # NoModel
    /\ LET p == Predict(model, x)
       IN  /\ model' = model
           /\ result' = [NoCall EXCEPT !.op = "predict", !.err = p.err,
                                       !.valid = ValidPredictArgs(model, x),
                                       !.rows = IF p.err = "none" THEN x.rows ELSE 0,
                                       !.pred = p]
    /\ UNCHANGED <<fit_calls, notModelVars>>

\* Singular covariance only matters to the gaussian variant.
SingularChoices == IF model.variant = "gaussian" THEN BOOLEAN ELSE {FALSE}

ModelNext ==
    \/ \E v \in Variants, n \in 0..MaxFeatures, kw \in Kwargs : New(v, n, kw)
    \/ \E s \in SingularChoices :
          \E x \in {a \in XArrays : a.tag = fit_calls + 1},
             y \in {a \in YArrays : a.tag = fit_calls + 1} :
             DoFit(x, y, s)
    \/ \E x \in XArrays : DoPredict(x)

-----------------------------------------------------------------------------
(* relaxed/halo_filters.py: intersect *)

IdArrays == UNION { [1..n -> 1..MaxId] : n \in 0..MaxLen }

\* np.all(np.sort(a) == a)
IsSorted(a) == \A i \in 1..Len(a) - 1 : a[i] <= a[i + 1]

\* Mutant of SearchSorted: side='right'.
SearchSortedRight(a, v) ==
    CHOOSE i \in 0..Len(a) :
        /\ \A j \in 1..i : a[j] <= v
        /\ \A j \in i + 1..Len(a) : v < a[j]

\* The i-th value of np.searchsorted(a, v) for an ascending a (side='left'): the
\* 0-based insertion point, with a[:i] < v <= a[i:].
SearchSorted(a, v) ==
    CHOOSE i \in 0..Len(a) :
        /\ \A j \in 1..i : a[j] < v
        /\ \A j \in i + 1..Len(a) : v <= a[j]

NotCalled == [err |-> "notcalled", mask |-> <<>>]

\* Mutant of intersect: the second array is not checked.
intersect_first_checked(a, b) ==
    IF ~IsSorted(a) THEN [err |-> "AssertionError", mask |-> <<>>]
    ELSE [err |-> "none",
          mask |-> [i \in 1..Len(a) |-> \E j \in 1..Len(b) : b[j] = a[i]]]

\* intersect(a, b): the assertions, then the mask that is built in three steps.
intersect(a, b) ==
    IF ~IsSorted(a) \/ ~IsSorted(b) THEN [err |-> "AssertionError", mask |-> <<>>]
    ELSE LET indx  == [i \in 1..Len(a) |-> SearchSorted(b, a[i])]
             first == [i \in 1..Len(a) |-> indx[i] < Len(b)]
             mask  == [i \in 1..Len(a) |->
                          IF first[i] THEN first[i] /\ b[indx[i] + 1] = a[i]
                          ELSE first[i]]
         IN  [err |-> "none", mask |-> mask]

IntersectIdle ==
    /\ ids1 = <<>>
    /\ ids2 = <<>>
    /\ indx_ok = NotCalled

IntersectInit ==
    /\ ids1 \in IdArrays
    /\ ids2 \in IdArrays
    /\ indx_ok = NotCalled

\* indx_ok = intersect(ids1, ids2)
Intersect ==
    /\ indx_ok = NotCalled
    /\ indx_ok' = intersect(ids1, ids2)
    /\ UNCHANGED <<ids1, ids2, notIntersectVars>>

IntersectNext == Intersect

-----------------------------------------------------------------------------
(* relaxed/halo_filters.py: HaloFilter *)

\* One halo of a catalog, and the catalogs (tables of rows, in row order).
Rows == [mvir : 1..MaxMvir, upid : -1..1]

Catalogs == UNION { [1..n -> Rows] : n \in 0..MaxCat }

\* The predicates a filter can hold, by name, applied to one value.
Predicates == {"always", "never", "gt1", "eq_m1", "ge0"}

Holds(ft, v) ==
    CASE ft = "always" -> TRUE
      [] ft = "never"  -> FALSE
      [] ft = "gt1"    -> v > 1
      [] ft = "eq_m1"  -> v = -1
      [] ft = "ge0"    -> v >= 0

\* filters: the dict of a HaloFilter, as its items in insertion order (a dict
\* with both keys can have been built in either order).
FilterDicts ==
    {<<>>}
    \cup { <<[param |-> k, ft |-> f]>> : k \in {"mvir", "upid"}, f \in Predicates }
    \cup { <<[param |-> "mvir", ft |-> f], [param |-> "upid", ft |-> g]>> :
             f \in Predicates, g \in Predicates }
    \cup { <<[param |-> "upid", ft |-> g], [param |-> "mvir", ft |-> f]>> :
             f \in Predicates, g \in Predicates }

\* halo_parameters.get_hparam(param, log=False).get_values(cat): the column.
GetValues(param, cat) == [i \in 1..Len(cat) |-> cat[i][param]]

\* cat[mask]: a new table with the rows whose mask entry is true, in order.
RECURSIVE Take(_, _)
Take(cat, mask) ==
    IF Len(cat) = 0 THEN <<>>
    ELSE (IF Head(mask) THEN <<Head(cat)>> ELSE <<>>) \o Take(Tail(cat), Tail(mask))

\* Mutant of filter_cat: only the predicate of the last key is applied.
filter_cat_last_key(filters, cat) ==
    IF Len(filters) = 0 THEN cat
    ELSE LET last   == filters[Len(filters)]
             values == GetValues(last.param, cat)
             mask   == [i \in 1..Len(cat) |-> Holds(last.ft, values[i])]
         IN  Take(cat, mask)

\* HaloFilter.filter_cat
RECURSIVE filter_cat(_, _)
filter_cat(filters, cat) ==
    IF Len(filters) = 0 THEN cat
    ELSE LET values == GetValues(Head(filters).param, cat)
             mask   == [i \in 1..Len(cat) |-> Holds(Head(filters).ft, values[i])]
         IN  filter_cat(Tail(filters), Take(cat, mask))

\* Objects live in a heap, a sequence indexed by reference; 0 is no object.

\* Mutant of deepcopy: the same object is handed back.
Alias(heap, ref) == [heap |-> heap, ref |-> ref]

\* deepcopy(obj): a new object with a copy of every attribute.
deepcopy(heap, ref) == [heap |-> Append(heap, heap[ref]), ref |-> Len(heap) + 1]

\* HaloFilter(filters, name).__call__(hcat, copy): the heap after the call, the
\* reference returned and the error raised.
HaloFilterCall(filters, name, heap, ref, copy) ==
    IF ~copy THEN [heap |-> heap, ref |-> 0, err |-> "NotImplementedError"]
    ELSE LET c       == deepcopy(heap, ref)
             new_cat == filter_cat(filters, c.heap[c.ref].cat)
         IN  [heap |-> [c.heap EXCEPT ![c.ref].cat = new_cat, ![c.ref].name = name],
              ref  |-> c.ref,
              err  |-> "none"]

FilterNames == {"filtered_cat", "relaxed"}

NoFilterCall ==
    [op |-> "none", err |-> "none", name |-> "", copy |-> TRUE, src |-> <<>>,
     filters |-> <<>>]

FilterIdle ==
    /\ hcat = <<>>
    /\ new_hcat = 0
    /\ call = NoFilterCall

\* The heap holds one halo catalog object, the source, at reference 1.
FilterInit ==
    /\ \E c \in Catalogs : hcat = <<[cat |-> c, name |-> "hcat"]>>
    /\ new_hcat = 0
    /\ call = NoFilterCall

\* new_hcat = HaloFilter(filters, name)(hcat, copy), on the source object
ApplyFilter(filters, name, copy) ==
    /\ call.op = "none"
    /\ LET r == HaloFilterCall(filters, name, hcat, 1, copy)
       IN  /\ hcat' = r.heap
           /\ new_hcat' = r.ref
           /\ call' = [op |-> "call", err |-> r.err, name |-> name, copy |-> copy,
                       src |-> hcat[1], filters |-> filters]
    /\ UNCHANGED notFilterVars

FilterNext ==
    \E f \in FilterDicts, n \in FilterNames, c \in BOOLEAN : ApplyFilter(f, n, c)

-----------------------------------------------------------------------------
(* relaxed/halo_filters.py: the filter builders *)

\* Floating-point values: a finite number n, plus or minus infinity, or NaN.
\* upid values are whole numbers; the relaxedness parameters (x0, f_sub, eta),
\* logarithms and the bounds compared with them count hundredths.
Num(n) == [inf |-> 0, n |-> n]
PosInf == [inf |-> 1, n |-> 0]
NegInf == [inf |-> -1, n |-> 0]
NaN    == [inf |-> 2, n |-> 0]

IsNaN(a)    == a.inf = 2
IsFinite(a) == a.inf = 0

\* a < b, a > b, a == b, a >= b on floating-point values: false when either
\* side is NaN.
Lt(a, b) ==
    /\ ~IsNaN(a) /\ ~IsNaN(b)
    /\ \/ a.inf < b.inf
       \/ a.inf = 0 /\ b.inf = 0 /\ a.n < b.n
Gt(a, b) == Lt(b, a)
Eq(a, b) == ~IsNaN(a) /\ ~IsNaN(b) /\ a = b
Ge(a, b) == Gt(a, b) \/ Eq(a, b)

\* Masses (mvir, particle_mass) are floating-point numbers of two significant
\* decimal digits, m * 10^(e - 1) with m in 10..99, or zero.
ZeroMass == [m |-> 0, e |-> 0]
Masses   == {ZeroMass} \cup [m : 10..99, e : 8..MaxExp + 3]

\* a > b for masses, exactly.
MassGt(a, b) ==
    /\ a # ZeroMass
    /\ b = ZeroMass \/ a.e > b.e \/ (a.e = b.e /\ a.m > b.m)

\* particle_mass * 1e3
Times1e3(a) == IF a = ZeroMass THEN ZeroMass ELSE [a EXCEPT !.e = a.e + 3]

\* np.log10(a), in hundredths: the logarithm rounded to the nearest value the
\* format holds, which near these magnitudes are the multiples of one half.
\* The mantissas are spaced more closely than the logarithms (as the doubles
\* are), so neighbouring masses share a logarithm.  log10(0) is -inf.
Log10(a) ==
    IF a = ZeroMass THEN NegInf
    ELSE LET k == CHOOSE j \in 2..4 : 10^(2 * j - 1) <= a.m^4 /\ a.m^4 < 10^(2 * j + 1)
         IN  Num(100 * a.e + 50 * (k - 2))

\* modifier(x) of get_bound_filter: the identity (the default), or np.log10 of
\* a mass.
Modifiers == {"id", "log10"}
Modify(modifier, x) == IF modifier = "log10" THEN Log10(x) ELSE x

\* The lambdas the builders return, applied to one entry of the array.

\* Mutant of bound_lambda: the lower bound is inclusive.
bound_lambda_inclusive(low, high, modifier, x) ==
    Ge(Modify(modifier, x), low) /\ Lt(Modify(modifier, x), high)

\* lambda x: (modifier(x) > low) & (modifier(x) < high)
bound_lambda(low, high, modifier, x) ==
    Gt(Modify(modifier, x), low) /\ Lt(Modify(modifier, x), high)

\* lambda mvirs: (np.log10(mvirs) > np.log10(particle_mass * 1e3))
mvir_lambda(particle_mass, mvirs) ==
    Gt(Log10(mvirs), Log10(Times1e3(particle_mass)))

\* myfilter(mvirs): np.log10(mvirs) < 13.75
myfilter(mvirs) == Lt(Log10(mvirs), Num(1375))

\* lambda x: x < c, c in hundredths
below_lambda(c, x) == Lt(x, Num(c))

\* lambda x: (x == -1 if not subhalos else x >= 0)
upid_lambda(subhalos, x) == IF ~subhalos THEN Eq(x, Num(-1)) ELSE Ge(x, Num(0))

\* ft(x) for one entry x, ft a closure: the lambda and the variables it holds.
CallFt(ft, x) ==
    CASE ft.kind = "bound"  -> bound_lambda(ft.low, ft.high, ft.modifier, x)
      [] ft.kind = "mvir"   -> mvir_lambda(ft.particle_mass, x)
      [] ft.kind = "myfilter" -> myfilter(x)
      [] ft.kind = "below"  -> below_lambda(ft.c, x)
      [] ft.kind = "upid"   -> upid_lambda(ft.subhalos, x)

\* What a builder call gives: the error raised, whether a warning was issued,
\* and the dict returned, as its items in insertion order.
Built(err, warned, filters) == [err |-> err, warned |-> warned, filters |-> filters]

Item(param, ft) == [param |-> param, ft |-> ft]

get_bound_filter(param, low, high, modifier) ==
    Built("none", FALSE,
          <<Item(param, [kind |-> "bound", low |-> low, high |-> high,
                         modifier |-> modifier])>>)

particle_mass_filter(particle_mass, subhalos) ==
    Built("none", subhalos,
          <<Item("mvir", [kind |-> "mvir", particle_mass |-> particle_mass])>>)

\* Mutant of catalog_mass_filter: every catalog name gets the cut.
catalog_mass_filter_any(catalog_name) ==
    Built("none", FALSE, <<Item("mvir", [kind |-> "myfilter"])>>)

catalog_mass_filter(catalog_name) ==
    IF catalog_name = "Bolshoi" \/ catalog_name = "BolshoiP"
    THEN Built("none", FALSE, <<Item("mvir", [kind |-> "myfilter"])>>)
    ELSE Built("NotImplementedError", FALSE, <<>>)

\* Mutant of get_relaxed_filters: an unknown name falls back to power2011.
get_relaxed_filters_fallback(relaxed_name) ==
    IF relaxed_name = "neto2007"
    THEN Built("none", FALSE,
               <<Item("f_sub", [kind |-> "below", c |-> 10]),
                 Item("x0", [kind |-> "below", c |-> 7]),
                 Item("eta", [kind |-> "below", c |-> 135])>>)
    ELSE Built("none", FALSE, <<Item("x0", [kind |-> "below", c |-> 4])>>)

get_relaxed_filters(relaxed_name) ==
    IF relaxed_name = "power2011"
    THEN Built("none", FALSE, <<Item("x0", [kind |-> "below", c |-> 4])>>)
    ELSE IF relaxed_name = "neto2007"
    THEN Built("none", FALSE,
               <<Item("f_sub", [kind |-> "below", c |-> 10]),
                 Item("x0", [kind |-> "below", c |-> 7]),
                 Item("eta", [kind |-> "below", c |-> 135])>>)
    ELSE Built("NotImplementedError", FALSE, <<>>)

\* Mutant of get_default_filters: the upid predicate ignores the flag.
get_default_filters_no_flag(particle_mass, subhalos) ==
    LET pm == particle_mass_filter(particle_mass, subhalos)
    IN  Built(pm.err, pm.warned,
              pm.filters \o <<Item("upid", [kind |-> "upid", subhalos |-> FALSE])>>)

get_default_filters(particle_mass, subhalos) ==
    LET pm == particle_mass_filter(particle_mass, subhalos)
    IN  Built(pm.err, pm.warned,
              pm.filters \o <<Item("upid", [kind |-> "upid", subhalos |-> subhalos])>>)

\* The calls made in the model.  Particle masses are around 1e8; names are the
\* known ones and some that are not; bounds are the defaults (-inf, inf, the
\* identity) or given.
ParticleMasses  == {ZeroMass, [m |-> 10, e |-> 8], [m |-> 13, e |-> 8]}
CatalogNames    == {"Bolshoi", "BolshoiP", "bolshoi", "MDPL2", ""}
RelaxedNames    == {"power2011", "neto2007", "Power2011", "relaxed", ""}
BoundParams     == {"x0", "mvir"}

\* Values an array can hold: plain numbers with the thresholds among them, and
\* masses around the cuts.
PlainValues == {Num(-1), Num(0), Num(3), Num(4), Num(7), Num(135), PosInf, NaN}
MassValues  ==
    {ZeroMass} \cup [m : {10, 11, 18, 56, 57}, e : {11, MaxExp - 1}]

BoundChoices(modifier) ==
    IF modifier = "log10" THEN {NegInf, PosInf, Num(1100), Num(1150)}
    ELSE {NegInf, PosInf, Num(0), Num(4)}

\* The values a predicate of this kind is applied to.
ValuesFor(ft) ==
    IF ft.kind \in {"mvir", "myfilter"} \/ (ft.kind = "bound" /\ ft.modifier = "log10")
    THEN MassValues ELSE PlainValues

\* Arrays of one kind of value, of 1..MaxCat entries.
ValueArrays ==
    UNION { [1..n -> PlainValues] \cup [1..n -> MassValues] : n \in 1..MaxCat }

NotBuilt   == [fn |-> "none"]
NotApplied == [key |-> "", x |-> <<>>, mask |-> <<>>]

BuilderIdle ==
    /\ built = NotBuilt
    /\ applied = NotApplied


Record(fn, args, r) ==
    [fn |-> fn, args |-> args, err |-> r.err, warned |-> r.warned, filters |-> r.filters]

\* built = get_bound_filter(param, low, high, modifier)
BuildBound(param, low, high, modifier) ==
    /\ built = NotBuilt
    /\ built' = Record("get_bound_filter",
                       [param |-> param, low |-> low, high |-> high, modifier |-> modifier],
                       get_bound_filter(param, low, high, modifier))
    /\ UNCHANGED <<applied, notBuilderVars>>

\* built = particle_mass_filter(particle_mass, subhalos)
BuildParticleMass(particle_mass, subhalos) ==
    /\ built = NotBuilt
    /\ built' = Record("particle_mass_filter",
                       [particle_mass |-> particle_mass, subhalos |-> subhalos],
                       particle_mass_filter(particle_mass, subhalos))
    /\ UNCHANGED <<applied, notBuilderVars>>

\* built = catalog_mass_filter(catalog_name)
BuildCatalogMass(catalog_name) ==
    /\ built = NotBuilt
    /\ built' = Record("catalog_mass_filter", [catalog_name |-> catalog_name],
                       catalog_mass_filter(catalog_name))
    /\ UNCHANGED <<applied, notBuilderVars>>

\* built = get_relaxed_filters(relaxed_name)
BuildRelaxed(relaxed_name) ==
    /\ built = NotBuilt
    /\ built' = Record("get_relaxed_filters", [relaxed_name |-> relaxed_name],
                       get_relaxed_filters(relaxed_name))
    /\ UNCHANGED <<applied, notBuilderVars>>

\* built = get_default_filters(particle_mass, subhalos)
BuildDefault(particle_mass, subhalos) ==
    /\ built = NotBuilt
    /\ built' = Record("get_default_filters",
                       [particle_mass |-> particle_mass, subhalos |-> subhalos],
                       get_default_filters(particle_mass, subhalos))
    /\ UNCHANGED <<applied, notBuilderVars>>

\* mask = built[key](x), for one key of the dict that was returned
ApplyPredicate(k, x) ==
    /\ built # NotBuilt
    /\ built.err = "none"
    /\ applied = NotApplied
    /\ k \in 1..Len(built.filters)
    /\ \A i \in 1..Len(x) : x[i] \in ValuesFor(built.filters[k].ft)
    /\ applied' = [key  |-> built.filters[k].param,
                   x    |-> x,
                   mask |-> [i \in 1..Len(x) |-> CallFt(built.filters[k].ft, x[i])]]
    /\ UNCHANGED <<built, notBuilderVars>>

\* The arrays a predicate can be applied to in the current state.
ApplyArrays ==
    IF built # NotBuilt /\ applied = NotApplied THEN ValueArrays ELSE {}

BuilderNext ==
    \/ \E p \in BoundParams, m \in Modifiers :
          \E low \in BoundChoices(m), high \in BoundChoices(m) : BuildBound(p, low, high, m)
    \/ \E pm \in ParticleMasses, s \in BOOLEAN : BuildParticleMass(pm, s)
    \/ \E name \in CatalogNames : BuildCatalogMass(name)
    \/ \E name \in RelaxedNames : BuildRelaxed(name)
    \/ \E pm \in ParticleMasses, s \in BOOLEAN : BuildDefault(pm, s)
    \/ \E k \in 1..3, x \in ApplyArrays : ApplyPredicate(k, x)

-----------------------------------------------------------------------------
(* intro/src/Params.py: the parameter registry and Param *)

\* info_params / params_dict: the keys of the registry and the catalog columns
\* the derive function of each reads ({} when derive is None: the key itself
\* is the column).
RegistryKeys ==
    {"mvir", "rvir", "rs", "Xoff", "Voff", "vrms", "Acc_Rate_1*Tdyn", "Acc_Rate_Inst",
     "T/|U|", "Spin", "scale_of_last_MM", "tdyn", "cvir", "q", "phi_l", "xoff", "voff"}

DeriveReads(key) ==
    CASE key = "tdyn"  -> {"rvir", "vrms"}
      [] key = "cvir"  -> {"rvir", "rs"}
      [] key = "q"     -> {"b_to_a", "c_to_a"}
      [] key = "phi_l" -> {"A[x]", "A[y]", "A[z]", "Jx", "Jy", "Jz"}
      [] key = "xoff"  -> {"Xoff", "rvir"}
      [] key = "voff"  -> {"Voff", "vrms"}
      [] OTHER         -> {}

\* Mutant of Lookup: the key is matched without regard to letter case.
LookupIgnoreCase(key) ==
    LET lower == CASE key \in {"Mvir", "MVIR"} -> "mvir"
                   [] key \in {"Xoff", "XOFF"} -> "xoff"
                   [] OTHER -> key
    IN  IF lower \in RegistryKeys
        THEN [err |-> "none", derive |-> DeriveReads(lower)]
        ELSE [err |-> "KeyError", derive |-> {}]

\* params_dict[key]['derive']
Lookup(key) ==
    IF key \in RegistryKeys
    THEN [err |-> "none", derive |-> DeriveReads(key)]
    ELSE [err |-> "KeyError", derive |-> {}]

\* An array of values, by what it was computed from; None is no array.
None == [from |-> 0, key |-> "", log |-> FALSE]
Values(cat, key, log) == [from |-> cat.id, key |-> key, log |-> log]

NoParam == [key |-> ""]

\* Param.__init__: the object constructed, or the error raised.
ParamInit(key, log) ==
    LET r == Lookup(key)
    IN  IF r.err # "none" THEN [p |-> NoParam, err |-> r.err]
        ELSE [p |-> [key |-> key, derive |-> r.derive, log |-> log, values |-> None],
              err |-> "none"]

\* Param.get_values: the array returned; a column the catalog lacks is a
\* KeyError.  np.log is applied when the log flag is set.
get_values(p, cat) ==
    IF p.values # None THEN [err |-> "none", values |-> p.values]
    ELSE LET reads == IF p.derive = {} THEN {p.key} ELSE p.derive
         IN  IF ~(reads \subseteq cat.cols) THEN [err |-> "KeyError", values |-> None]
             ELSE [err |-> "none", values |-> Values(cat, p.key, p.log)]

\* Param.set_values
set_values(p, cat) ==
    LET r == get_values(p, cat)
    IN  IF r.err # "none" THEN [p |-> p, err |-> r.err]
        ELSE [p |-> [p EXCEPT !.values = r.values], err |-> "none"]

\* Keys a caller passes: entries of the registry, and strings that are not.
ParamKeys == {"mvir", "Xoff", "xoff", "cvir", "Mvir", "XOFF", "x0"}

\* Catalogs: tables 1..MaxTables, each with all the columns or without rvir.
AllColumns ==
    {"mvir", "rvir", "rs", "Xoff", "Voff", "vrms", "b_to_a", "c_to_a"}
ParamCatalogs == [id : 1..MaxTables, cols : {AllColumns, AllColumns \ {"rvir"}}]

NoParamCall == [op |-> "none", err |-> "none", arg |-> "", cat |-> 0, values |-> None]

ParamIdle ==
    /\ hparam = NoParam
    /\ pcall = NoParamCall
    /\ first_got = None


\* hparam = Param(key, log)
NewParam(key, log) ==
    /\ hparam = NoParam
    /\ pcall.op = "none"
    /\ LET r == ParamInit(key, log)
       IN  /\ hparam' = r.p
           /\ pcall' = [NoParamCall EXCEPT !.op = "init", !.err = r.err, !.arg = key]
    /\ UNCHANGED <<first_got, notParamVars>>

\* hparam.get_values(cat); first_got keeps what the first call returned.
GetValuesCall(cat) ==
    /\ hparam # NoParam
    /\ LET r == get_values(hparam, cat)
       IN  /\ pcall' = [NoParamCall EXCEPT !.op = "get_values", !.err = r.err,
                                           !.cat = cat.id, !.values = r.values]
           /\ first_got' = IF first_got = None THEN r.values ELSE first_got
    /\ UNCHANGED <<hparam, notParamVars>>

\* hparam.set_values(cat)
SetValuesCall(cat) ==
    /\ hparam # NoParam
    /\ LET r == set_values(hparam, cat)
       IN  /\ hparam' = r.p
           /\ pcall' = [NoParamCall EXCEPT !.op = "set_values", !.err = r.err,
                                           !.cat = cat.id]
    /\ UNCHANGED <<first_got, notParamVars>>

ParamNext ==
    \/ \E key \in ParamKeys, log \in BOOLEAN : NewParam(key, log)
    \/ \E cat \in ParamCatalogs : GetValuesCall(cat)
    \/ \E cat \in ParamCatalogs : SetValuesCall(cat)

-----------------------------------------------------------------------------
(* relaxed/models.py: CAM._fit and CAM._predict on numbers *)

\* Exact fractions num / den, den > 0, in lowest terms.
RECURSIVE GCD(_, _)
GCD(a, b) == IF b = 0 THEN a ELSE GCD(b, a % b)

Abs(a) == IF a < 0 THEN -a ELSE a

Rat(n, d) ==
    LET g == GCD(Abs(n), d)
    IN  [num |-> IF n < 0 THEN -(Abs(n) \div g) ELSE n \div g, den |-> d \div g]

RAdd(a, b) == Rat(a.num * b.den + b.num * a.den, a.den * b.den)
RSub(a, b) == Rat(a.num * b.den - b.num * a.den, a.den * b.den)
RMul(a, b) == Rat(a.num * b.num, a.den * b.den)
\* a / b for b # 0
RDiv(a, b) == Rat(IF b.num < 0 THEN -(a.num * b.den) ELSE a.num * b.den,
                  a.den * Abs(b.num))
RLt(a, b)  == a.num * b.den < b.num * a.den

Rats(s) == [i \in 1..Len(s) |-> Rat(s[i], 1)]

\* np.sort(a) for a 1-dimensional array of integers
RECURSIVE Sort(_)
Sort(a) ==
    IF Len(a) = 0 THEN <<>>
    ELSE LET least == CHOOSE i \in 1..Len(a) : \A j \in 1..Len(a) : a[i] <= a[j]
         IN  <<a[least]>> \o Sort([k \in 1..Len(a) - 1 |->
                                      IF k < least THEN a[k] ELSE a[k + 1]])

\* c * a
Scale(c, a) == [i \in 1..Len(a) |-> c * a[i]]

\* Mutant of Interp: values outside the nodes are extrapolated from the
\* nearest segment instead of being replaced by the fill values.
InterpExtrapolate(t, q) ==
    LET n     == Len(t.x)
        hi    == IF ~RLt(t.x[1], q) THEN 2
                 ELSE IF RLt(t.x[n], q) THEN n
                 ELSE CHOOSE j \in 2..n : RLt(t.x[j - 1], q) /\ ~RLt(t.x[j], q)
        lo    == hi - 1
        slope == RDiv(RSub(t.y[hi], t.y[lo]), RSub(t.x[hi], t.x[lo]))
    IN  RAdd(RMul(slope, RSub(q, t.x[lo])), t.y[lo])

\* interp1d(x, y, fill_value=(below, above), bounds_error=False)(q), for
\* ascending x of two or more nodes: outside the nodes the fill values, inside
\* the line through the two nodes around q (np.searchsorted(x, q) clipped to
\* the segments).
Interp(t, q) ==
    LET n == Len(t.x)
    IN  IF RLt(q, t.x[1]) THEN t.below
        ELSE IF RLt(t.x[n], q) THEN t.above
        ELSE LET hi    == IF q = t.x[1] THEN 2
                          ELSE CHOOSE j \in 2..n : RLt(t.x[j - 1], q) /\ ~RLt(t.x[j], q)
                 lo    == hi - 1
                 slope == RDiv(RSub(t.y[hi], t.y[lo]), RSub(t.x[hi], t.x[lo]))
             IN  RAdd(RMul(slope, RSub(q, t.x[lo])), t.y[lo])

NoTable == [x |-> <<>>, y |-> <<>>, below |-> Rat(0, 1), above |-> Rat(0, 1)]   \* None

\* get_an_from_am(am, mass_bins, mrange): one rank statistic for each row of am;
\* a row is represented with the statistic it is given.
get_an_from_am(am) == [i \in 1..Len(am) |-> am[i].an]

\* np.arange(n) / n
Arange(n) == [i \in 1..n |-> Rat(i - 1, n)]

NoCam == [cam_order |-> 0]

\* CAM.__init__ for one feature: the object, or the error raised.
CamConstruct(cam_order) ==
    LET kwargs == [mass_bins |-> 1, mrange |-> 2, cam_order |-> cam_order]
        err    == ConstructErr("cam", 1, kwargs)
    IN  IF err # "none" THEN [m |-> NoCam, err |-> err]
        ELSE [m |-> [cam_order  |-> Construct("cam", 1, kwargs).cam_order,
                     trained    |-> FALSE,
                     an_to_mark |-> NoTable,
                     mark_to_Y  |-> NoTable,
                     train      |-> [an |-> <<>>, y |-> <<>>]],
              err |-> "none"]

\* CAM.fit(am, y) for a 1-dimensional y with one entry for each row of am:
\* the assertions of PredictionModel.fit pass, then CAM._fit.  train keeps the
\* data of the fit.
CAM_fit(m, am, y) ==
    LET an_train == get_an_from_am(am)
        y_sort   == Scale(m.cam_order, Sort(Scale(m.cam_order, y)))
        an_sort  == Sort(an_train)
        n        == Len(y_sort)
        marks0   == Arange(n)
    IN  IF n < 2 THEN [m |-> m, err |-> "IndexError"]              \* marks[1]
        ELSE LET half  == RDiv(RSub(marks0[2], marks0[1]), Rat(2, 1))
                 marks == [i \in 1..n |-> RAdd(marks0[i], half)]
             IN  [m |-> [m EXCEPT
                           !.an_to_mark = [x |-> Rats(an_sort), y |-> marks,
                                           below |-> Rat(0, 1), above |-> Rat(1, 1)],
                           !.mark_to_Y  = [x |-> marks, y |-> Rats(y_sort),
                                           below |-> Rat(y_sort[1], 1),
                                           above |-> Rat(y_sort[n], 1)],
                           !.trained    = TRUE,
                           !.train      = [an |-> an_train, y |-> y]],
                  err |-> "none"]

\* CAM.predict(am) for an am of one column without NaN: the assertion on
\* trained, then CAM._predict.
CAM_predict(m, am) ==
    IF ~m.trained THEN [err |-> "AssertionError", out |-> <<>>]
    ELSE LET an == get_an_from_am(am)
         IN  [err |-> "none",
              out |-> [i \in 1..Len(an) |->
                          Interp(m.mark_to_Y, Interp(m.an_to_mark, Rat(an[i], 1)))]]

\* Training data: 1..MaxTrain rows with distinct rank statistics in 1..MaxVal,
\* and y values in 1..MaxVal.
TrainAm ==
    UNION { { am \in [1..n -> [an : 1..MaxVal]] :
                 \A i \in 1..n, j \in 1..n : i # j => am[i] # am[j] } : n \in 1..MaxTrain }

TrainY(n) == [1..n -> 1..MaxVal]

\* Arrays predict is called on: one row with a statistic in 0..MaxVal + 1, or
\* a row for each of these values in ascending order.
PredictAm ==
    { <<[an |-> q]>> : q \in 0..MaxVal + 1 }
    \cup { [i \in 1..MaxVal + 2 |-> [an |-> i - 1]] }

CamOrders == {-1, 0, 1, 2}

NoCamCall == [op |-> "none", err |-> "none", arg |-> 0, rows |-> 0, x |-> <<>>, out |-> <<>>]

CamIdle ==
    /\ cam = NoCam
    /\ cam_call = NoCamCall


\* cam = CAM(1, mass_bins, mrange, cam_order)
CamNew(cam_order) ==
    /\ cam = NoCam
    /\ cam_call.op = "none"
    /\ LET r == CamConstruct(cam_order)
       IN  /\ cam' = r.m
           /\ cam_call' = [NoCamCall EXCEPT !.op = "init", !.err = r.err, !.arg = cam_order]
    /\ UNCHANGED notCamVars

\* cam.fit(am, y), on an object that no fit has trained yet
CamFit(am, y) ==
    /\ cam # NoCam
    /\ ~cam.trained
    /\ Len(am) = Len(y)
    /\ LET r == CAM_fit(cam, am, y)
       IN  /\ cam' = r.m
           /\ cam_call' = [NoCamCall EXCEPT !.op = "fit", !.err = r.err, !.rows = Len(am)]
    /\ UNCHANGED notCamVars

\* cam.predict(am)
CamPredict(am) ==
    /\ cam # NoCam
    /\ LET r == CAM_predict(cam, am)
       IN  cam_call' = [NoCamCall EXCEPT !.op = "predict", !.err = r.err,
                                         !.x = get_an_from_am(am), !.out = r.out]
    /\ UNCHANGED <<cam, notCamVars>>

\* The data a fit can be called with in the current state.
FitAm == IF cam # NoCam /\ ~cam.trained THEN TrainAm ELSE {}
FitY  == IF cam # NoCam /\ ~cam.trained THEN UNION { TrainY(n) : n \in 1..MaxTrain } ELSE {}

CamNext ==
    \/ \E c \in CamOrders : CamNew(c)
    \/ \E am \in FitAm, y \in FitY : CamFit(am, y)
    \/ \E am \in PredictAm : CamPredict(am)

-----------------------------------------------------------------------------
(* relaxed/models.py: training_suite *)

\* Run names are 1..MaxRuns, numbered in the insertion order of the data dict.

NoKwargs == [k \in {} |-> 0]

SuiteX(cols, d) ==
    [ndim |-> 2, rows |-> 2, cols |-> cols, content |-> "pos", scale |-> "raw", tag |-> d]

SuiteY(content, d) ==
    [ndim |-> 1, rows |-> 2, cols |-> 0, content |-> content, scale |-> "raw", tag |-> d]

Entry(m, n, cols, kwargs, isdict, ycontent, singular, d) ==
    [model |-> m, n_features |-> n, x |-> SuiteX(cols, d), y |-> SuiteY(ycontent, d),
     kwargs |-> kwargs, kwargs_is_dict |-> isdict, singular |-> singular]

\* Keyword dictionaries that construct each variant for n features.
GoodKwargs(m, n) ==
    IF m = "cam" THEN { [mass_bins |-> n, mrange |-> 2] }
    ELSE IF IsTransform(m) THEN { NoKwargs, [use_qt |-> 1], [use_logs |-> 1] }
    ELSE { NoKwargs }

\* The entries of run d: the well-formed ones, and entries with one defect each.
Entries(d) ==
    UNION { { Entry(m, n, n, kw, TRUE, "pos", FALSE, d) : kw \in GoodKwargs(m, n) } :
            m \in Variants, n \in 1..MaxFeatures }
    \cup { Entry("svm", 1, 1, NoKwargs, TRUE, "pos", FALSE, d),
           Entry("linear", 1, 2, NoKwargs, TRUE, "pos", FALSE, d),
           Entry("linear", 2, 1, [use_qt |-> 1], TRUE, "pos", FALSE, d),
           Entry("linear", 1, 1, NoKwargs, FALSE, "pos", FALSE, d),
           Entry("linear", 1, 1, [bogus |-> 0], TRUE, "pos", FALSE, d),
           Entry("lasso", 1, 1, [use_qt |-> 1, use_logs |-> 1], TRUE, "pos", FALSE, d),
           Entry("cam", 1, 1, NoKwargs, TRUE, "pos", FALSE, d),
           Entry("lognormal", 1, 1, NoKwargs, TRUE, "nan", FALSE, d),
           Entry("gaussian", 1, 1, NoKwargs, TRUE, "pos", TRUE, d) }

DataDicts ==
    UNION { { f \in [1..k -> UNION { Entries(d) : d \in 1..MaxData }] :
                \A name \in 1..k : f[name].x.tag = ((name - 1) % MaxData) + 1 } :
            k \in 0..MaxRuns }

\* The first loop of training_suite: the error its assertions raise for one
\* entry ("none" when they all pass).
ValidateEntry(e) ==
    IF e.model \notin Variants THEN "AssertionError"
    ELSE IF ~e.kwargs_is_dict THEN "AssertionError"
    ELSE IF e.n_features # e.x.cols THEN "AssertionError"
    ELSE "none"

\* Mutant of TrainEntry: the model is constructed and stored without being fit.
TrainEntryNoFit(e) ==
    LET err == ConstructErr(e.model, e.n_features, e.kwargs)
    IN  IF err # "none" THEN Outcome(NoModel, err)
        ELSE Outcome(Construct(e.model, e.n_features, e.kwargs), "none")

\* One pass of the second loop: construct the entry's model and fit it.
TrainEntry(e) ==
    LET err == ConstructErr(e.model, e.n_features, e.kwargs)
    IN  IF err # "none" THEN Outcome(NoModel, err)
        ELSE Fit(Construct(e.model, e.n_features, e.kwargs), e.x, e.y, e.singular)

Running == [err |-> "running", value |-> <<>>]

SuiteIdle ==
    /\ data = <<>>
    /\ pc = "idle"
    /\ cursor = 0
    /\ trained_models = <<>>
    /\ returned = Running

\* training_suite(data) has been called.
SuiteInit ==
    /\ data \in DataDicts
    /\ pc = "validate"
    /\ cursor = 0
    /\ trained_models = <<>>
    /\ returned = Running

\* The validation loop: the first failing assertion ends the call.
Validate ==
    /\ pc = "validate"
    /\ LET bad == { name \in DOMAIN data : ValidateEntry(data[name]) # "none" }
       IN  IF bad = {}
           THEN /\ pc' = "train"
                /\ cursor' = 1
                /\ UNCHANGED <<data, trained_models, returned>>
           ELSE /\ pc' = "failed"
                /\ returned' = [err |-> "AssertionError", value |-> <<>>]
                /\ UNCHANGED <<data, cursor, trained_models>>
    /\ UNCHANGED notSuiteVars

\* Mutant of Train: an entry that raises is skipped and the loop goes on.
TrainSkipping ==
    /\ pc = "train"
    /\ cursor <= Len(data)
    /\ LET r == Fit(Construct(data[cursor].model, data[cursor].n_features,
                              data[cursor].kwargs),
                    data[cursor].x, data[cursor].y, data[cursor].singular)
           bad == ConstructErr(data[cursor].model, data[cursor].n_features,
                               data[cursor].kwargs) # "none"
       IN  /\ trained_models' = IF bad \/ r.err # "none" THEN trained_models
                                ELSE Append(trained_models, r.m)
           /\ cursor' = cursor + 1
           /\ UNCHANGED <<data, pc, returned>>
    /\ UNCHANGED notSuiteVars

\* One pass of the training loop, for the entry at the cursor.
Train ==
    /\ pc = "train"
    /\ cursor <= Len(data)
    /\ LET r == TrainEntry(data[cursor])
       IN  IF r.err = "none"
           THEN /\ trained_models' = Append(trained_models, r.m)
                /\ cursor' = cursor + 1
                /\ UNCHANGED <<data, pc, returned>>
           ELSE /\ pc' = "failed"
                /\ returned' = [err |-> r.err, value |-> <<>>]
                /\ UNCHANGED <<data, cursor, trained_models>>
    /\ UNCHANGED notSuiteVars

\* return trained_models
Return ==
    /\ pc = "train"
    /\ cursor > Len(data)
    /\ pc' = "done"
    /\ returned' = [err |-> "none", value |-> trained_models]
    /\ UNCHANGED <<data, cursor, trained_models, notSuiteVars>>

SuiteNext == Validate \/ Train \/ Return

-----------------------------------------------------------------------------
(* relaxed/halo_filters.py: get_id_filter; relaxed/subhaloes/catalog.py *)

\* What get_id_filter accepts as ids, and one thing it does not.
IdKinds == {"ndarray", "list", "tuple"}

\* get_id_filter(ids): the dict {"id": lambda}, the lambda holding np.array(ids).
get_id_filter(kind, ids) ==
    IF kind \notin {"ndarray", "list"} THEN [err |-> "AssertionError", ids |-> <<>>]
    ELSE [err |-> "none", ids |-> ids]

\* lambda x: intersect(np.array(x), ids)
id_lambda(ids, x) == intersect(x, ids)

\* HaloFilter(get_id_filter(ids))(hcat) for a catalog whose id column is x:
\* the error raised and the id column of the catalog returned.
IdFilterCall(kind, ids, x) ==
    LET f == get_id_filter(kind, ids)
    IN  IF f.err # "none" THEN [err |-> f.err, cat |-> <<>>]
        ELSE LET r == id_lambda(f.ids, x)
             IN  IF r.err # "none" THEN [err |-> r.err, cat |-> <<>>]
                 ELSE [err |-> "none", cat |-> Take(x, r.mask)]

\* A minh catalog: halo rows (id, upid, mvir) stored in blocks of BlockLen rows.
\* The rows carry the given ids in the given order and distinct masses; in a
\* "hosts" file every halo is a host, in a "subs" file the halos after the
\* first are subhaloes of the first.
MinhKinds == {"hosts", "subs"}

MinhRows(ids, kind) ==
    [j \in 1..Len(ids) |->
        [id |-> ids[j], upid |-> IF kind = "hosts" \/ j = 1 THEN -1 ELSE ids[1],
         mvir |-> j]]

\* mcat.block(b, names) for b in range(mcat.blocks)
MinhBlocks(rows) ==
    [b \in 1..((Len(rows) + BlockLen - 1) \div BlockLen) |->
        SubSeq(rows, (b - 1) * BlockLen + 1,
               IF b * BlockLen < Len(rows) THEN b * BlockLen ELSE Len(rows))]

\* table.sort("id"): rows in ascending id order, equal ids in their old order.
RECURSIVE SortById(_)
SortById(t) ==
    IF Len(t) = 0 THEN <<>>
    ELSE LET least == CHOOSE i \in 1..Len(t) :
                         \A j \in 1..Len(t) :
                            t[i].id < t[j].id \/ (t[i].id = t[j].id /\ i <= j)
         IN  <<t[least]>> \o SortById(SubSeq(t, 1, least - 1) \o
                                       SubSeq(t, least + 1, Len(t)))

RECURSIVE SumSeq(_)
SumSeq(s) == IF Len(s) = 0 THEN 0 ELSE Head(s) + SumSeq(Tail(s))

\* quantities.m_sub(host_ids, sub_pids, sub_mvir): for each host, the summed
\* mass of the subhaloes whose parent it is.
m_sub(host_ids, sub_pids, sub_mvir) ==
    [i \in 1..Len(host_ids) |->
        SumSeq([j \in 1..Len(sub_pids) |->
                   IF sub_pids[j] = host_ids[i] THEN sub_mvir[j] ELSE 0])]

\* column[mask] = values: the k-th selected entry takes the k-th value, one
\* value is broadcast, any other count of values is a shape error.
MaskedAssign(column, mask, values) ==
    LET n       == Cardinality({i \in 1..Len(mask) : mask[i]})
        rank(i) == Cardinality({j \in 1..i : mask[j]})
    IN  IF Len(values) # n /\ Len(values) # 1
        THEN [err |-> "ValueError", column |-> column]
        ELSE [err |-> "none",
              column |-> [i \in 1..Len(column) |->
                             IF ~mask[i] THEN column[i]
                             ELSE IF Len(values) = n THEN values[rank(i)]
                             ELSE values[1]]]

\* One pass of the loop over the blocks, on the columns of subcat.
BlockPass(sub, host_ids, block) ==
    LET table    == SortById(block)
        keep     == intersect([i \in 1..Len(table) |-> table[i].id], host_ids)
        kept     == Take(table, keep.mask)
        indx     == intersect(host_ids, [i \in 1..Len(kept) |-> kept[i].id])
        assigned == MaskedAssign(sub.mvir, indx.mask,
                                 [i \in 1..Len(kept) |-> kept[i].mvir])
        subs     == SelectSeq(block, LAMBDA row : row.upid # -1)
        masses   == m_sub(host_ids, [j \in 1..Len(subs) |-> subs[j].upid],
                          [j \in 1..Len(subs) |-> subs[j].mvir])
    IN  IF sub.err # "none" THEN sub
        ELSE IF keep.err # "none" THEN [sub EXCEPT !.err = keep.err]
        ELSE IF indx.err # "none" THEN [sub EXCEPT !.err = indx.err]
        ELSE IF assigned.err # "none" THEN [sub EXCEPT !.err = assigned.err]
        ELSE [err   |-> "none",
              mvir  |-> assigned.column,
              f_sub |-> [i \in 1..Len(host_ids) |-> sub.f_sub[i] + masses[i]]]

RECURSIVE BlockLoop(_, _, _)
BlockLoop(sub, host_ids, blocks) ==
    IF Len(blocks) = 0 THEN sub
    ELSE BlockLoop(BlockPass(sub, host_ids, Head(blocks)), host_ids, Tail(blocks))

NoSubcat == [op |-> "none", err |-> "none", minh |-> <<>>, rows |-> <<>>]

\* create_subhalo_cat(host_ids, minh_file), host_ids an np.ndarray: the error
\* raised and the rows (id, mvir, f_sub) of the table returned.
create_subhalo_cat(host_ids, blocks) ==
    IF ~IsSorted(host_ids) THEN [err |-> "AssertionError", rows |-> <<>>]
    ELSE LET zeros == [i \in 1..Len(host_ids) |-> 0]
             sub   == BlockLoop([err |-> "none", mvir |-> zeros, f_sub |-> zeros],
                                host_ids, blocks)
         IN  IF sub.err # "none" THEN [err |-> sub.err, rows |-> <<>>]
             ELSE IF \E i \in 1..Len(host_ids) : sub.mvir[i] <= 0
             THEN [err |-> "AssertionError", rows |-> <<>>]
             ELSE [err  |-> "none",
                   rows |-> [i \in 1..Len(host_ids) |->
                                [id |-> host_ids[i], mvir |-> sub.mvir[i],
                                 f_sub |-> Rat(sub.f_sub[i], sub.mvir[i])]]]

NoIdCall == [op |-> "none", kind |-> "", err |-> "none", cat |-> <<>>]

SubhaloIdle ==
    /\ id_call = NoIdCall
    /\ subcat = NoSubcat

\* HaloFilter(get_id_filter(ids2))(hcat), the id column of hcat being ids1
ApplyIdFilter(kind) ==
    /\ id_call = NoIdCall /\ subcat = NoSubcat
    /\ LET r == IdFilterCall(kind, ids2, ids1)
       IN  id_call' = [op |-> "call", kind |-> kind, err |-> r.err, cat |-> r.cat]
    /\ UNCHANGED <<subcat, notSubhaloVars>>

\* create_subhalo_cat(ids1, minh_file), the file holding the halos ids2
CreateSubhaloCat(kind) ==
    /\ id_call = NoIdCall /\ subcat = NoSubcat
    /\ LET minh == MinhBlocks(MinhRows(ids2, kind))
           r    == create_subhalo_cat(ids1, minh)
       IN  subcat' = [op |-> "call", err |-> r.err, minh |-> minh, rows |-> r.rows]
    /\ UNCHANGED <<id_call, notSubhaloVars>>

SubhaloNext ==
    \/ Intersect
    \/ \E kind \in IdKinds : ApplyIdFilter(kind)
    \/ \E kind \in MinhKinds : CreateSubhaloCat(kind)

-----------------------------------------------------------------------------
(* relaxed/progenitors/progenitor_lines.py: ProgenitorLine *)

ColNames ==
    <<"halo_id", "mvir", "scale", "scale_of_last_MM", "coprog_ids", "coprog_mvirs",
      "coprog_scale">>

\* A text field of a halo row is <<>>, the empty string, or <<v>>, the text of
\* the number v. float(x) if x != "" else -1
Field(f) == IF f = <<>> THEN -1 ELSE f[1]

\* The seven fields of a halo row; the three co-progenitor fields can be empty.
HaloFields ==
    { LET c == IF alone THEN <<>> ELSE <<h + 1>>
      IN  <<<<h>>, <<10 + h>>, <<1>>, <<0>>, c, c, c>> :
        h \in 1..MaxRoot, alone \in BOOLEAN }

HaloTuple(fields) == [k \in 1..Len(fields) |-> Field(fields[k])]

HaloTuples == { HaloTuple(f) : f \in HaloFields }

\* astropy Table(): no columns.
EmptyTable == [colnames |-> <<>>, columns |-> <<>>]

\* astropy Table(rows=rows, names=names): one column for each name, the k-th
\* column holding the k-th entry of every row.
Table(rows, names) ==
    [colnames |-> names,
     columns  |-> [k \in 1..Len(names) |-> [i \in 1..Len(rows) |-> rows[i][k]]]]

\* Table(rows=[], names=names) finds no columns in the rows: depending on the
\* astropy release it gives a table of empty columns or raises ValueError.
TableChoices(rows) == IF rows = <<>> THEN BOOLEAN ELSE {TRUE}

\* ProgenitorLine.__init__
ProgenitorLine(root_id) ==
    [root_id |-> root_id, cat |-> EmptyTable, colnames |-> ColNames, rows |-> <<>>,
     finalized |-> FALSE]

\* No object (None).
NoLine ==
    [root_id |-> -1, cat |-> EmptyTable, colnames |-> <<>>, rows |-> <<>>,
     finalized |-> FALSE]

\* Mutant of add: without the assertion.
add_unchecked(line, halo_tuple) ==
    [err |-> "none", line |-> [line EXCEPT !.rows = Append(@, halo_tuple)]]

\* ProgenitorLine.add
add(line, halo_tuple) ==
    IF line.finalized THEN [err |-> "AssertionError", line |-> line]
    ELSE [err |-> "none", line |-> [line EXCEPT !.rows = Append(@, halo_tuple)]]

\* ProgenitorLine.finalize; the flag is set before the table is built.
finalize(line, table_ok) ==
    IF line.finalized THEN [err |-> "AssertionError", line |-> line]
    ELSE IF ~table_ok
    THEN [err |-> "ValueError", line |-> [line EXCEPT !.finalized = TRUE]]
    ELSE [err  |-> "none",
          line |-> [line EXCEPT !.finalized = TRUE,
                                !.cat = Table(line.rows, line.colnames)]]

NoLineCall == [op |-> "none", err |-> "none", arg |-> <<>>]

LineIdle ==
    /\ pline = NoLine
    /\ line_call = NoLineCall
    /\ added = <<>>

\* pline = ProgenitorLine(root_id)
LineInit ==
    /\ \E root_id \in 1..MaxRoot : pline = ProgenitorLine(root_id)
    /\ line_call = NoLineCall
    /\ added = <<>>

\* pline.add(halo_tuple)
LineAdd(halo_tuple) ==
    /\ \/ Len(pline.rows) < MaxHalos
       \/ pline.finalized /\ Len(pline.rows) <= MaxHalos
    /\ LET r == add(pline, halo_tuple)
       IN  /\ pline' = r.line
           /\ line_call' = [op |-> "add", err |-> r.err, arg |-> halo_tuple]
           /\ added' = IF r.err = "none" THEN Append(added, halo_tuple) ELSE added
    /\ UNCHANGED notLineVars

\* pline.finalize()
LineFinalize(table_ok) ==
    /\ LET r == finalize(pline, table_ok)
       IN  /\ pline' = r.line
           /\ line_call' = [op |-> "finalize", err |-> r.err, arg |-> <<>>]
    /\ UNCHANGED <<added, notLineVars>>

LineTableChoices == TableChoices(pline.rows)

LineNext ==
    \/ \E halo_tuple \in HaloTuples : LineAdd(halo_tuple)
    \/ \E table_ok \in LineTableChoices : LineFinalize(table_ok)

-----------------------------------------------------------------------------
(* relaxed/progenitors/progenitor_lines.py: get_prog_lines_generator *)

\* The lines of a progenitor file, by the pattern they match: a tree-root
\* header with its id, a halo row with its fields, an "id=.., mmp=.." line
\* with its mmp, the three kinds of summary line, an empty line, a line of
\* white space, and a line that matches nothing.
RootLine(root_id) == [kind |-> "root", id |-> root_id, fields |-> <<>>]
HaloLine(fields)  == [kind |-> "halo", id |-> 0, fields |-> fields]
WeirdLine(mmp)    == [kind |-> "weird", id |-> mmp, fields |-> <<>>]
PlainLine(kind)   == [kind |-> kind, id |-> 0, fields |-> <<>>]

\* The halo rows of the files: halos with an even id have no co-progenitor.
FileHaloFields == { f \in HaloFields : (f[5] = <<>>) <=> (f[1][1] % 2 = 0) }

FileLines ==
    { RootLine(r) : r \in 1..MaxRoot }
    \cup { HaloLine(f) : f \in FileHaloFields }
    \cup { WeirdLine(0), WeirdLine(1) }
    \cup { PlainLine(k) : k \in {"empty", "spaces", "top", "other"} }

ProgFiles == UNION { [1..n -> FileLines] : n \in 0..MaxLines }

\* line.rstrip()
Rstrip(line) == IF line.kind = "spaces" THEN PlainLine("empty") ELSE line

Step(err, line, out) == [err |-> err, prog_line |-> line, out |-> out]

\* The body of the loop for one line of the file: the error raised, the new
\* value of prog_line and the lines yielded.
ProcessLine(pl, raw, table_ok) ==
    LET line == Rstrip(raw)
    IN  IF line.kind # "empty"
        THEN CASE line.kind = "root" -> Step("none", ProgenitorLine(line.id), <<>>)
               [] line.kind = "halo" ->
                     IF pl = NoLine THEN Step("AttributeError", pl, <<>>)
                     ELSE LET r == add(pl, HaloTuple(line.fields))
                          IN  Step(r.err, r.line, <<>>)
               [] line.kind = "weird" ->
                     IF line.id # 0 THEN Step("AssertionError", pl, <<>>)
                     ELSE Step("none", NoLine, <<>>)
               [] line.kind \in {"top", "total", "count"} -> Step("none", pl, <<>>)
               [] OTHER -> Step("ValueError", pl, <<>>)
        ELSE IF pl # NoLine
        THEN LET r == finalize(pl, table_ok)
             IN  IF r.err # "none" THEN Step(r.err, r.line, <<>>)
                 ELSE Step("none", NoLine, <<r.line>>)
        ELSE Step("none", pl, <<>>)

GenIdle ==
    /\ pf = <<>>
    /\ fpos = 0
    /\ prog_line = NoLine
    /\ yielded = <<>>
    /\ gen = "idle"

\* get_prog_lines_generator(progenitor_file) has been called and is iterated.
GenInit ==
    /\ pf \in ProgFiles
    /\ fpos = 0
    /\ prog_line = NoLine
    /\ yielded = <<>>
    /\ gen = "running"

\* The generator reads the next line of the file and handles it.
GenStep(table_ok) ==
    /\ gen = "running"
    /\ fpos < Len(pf)
    /\ LET r == ProcessLine(prog_line, pf[fpos + 1], table_ok)
       IN  /\ prog_line' = r.prog_line
           /\ yielded' = yielded \o r.out
           /\ gen' = IF r.err = "none" THEN "running" ELSE r.err
    /\ fpos' = fpos + 1
    /\ UNCHANGED <<pf, notGenVars>>

\* The file is exhausted: the loop and the generator end.
GenReturn ==
    /\ gen = "running"
    /\ fpos = Len(pf)
    /\ gen' = "done"
    /\ UNCHANGED <<pf, fpos, prog_line, yielded, notGenVars>>

GenTableChoices == TableChoices(prog_line.rows)

GenNext ==
    \/ \E table_ok \in GenTableChoices : GenStep(table_ok)
    \/ GenReturn

-----------------------------------------------------------------------------
(* Specifications *)

\* Each specification starts one part of the program and leaves the others idle;
\* no builder has been called, no Param and no CAM constructed at the start.
InitOfIntersect ==
    IntersectInit /\ ModelIdle /\ SuiteIdle /\ FilterIdle
    /\ BuilderIdle /\ ParamIdle /\ CamIdle /\ SubhaloIdle /\ LineIdle /\ GenIdle

InitOfModel ==
    IntersectIdle /\ ModelInit /\ SuiteIdle /\ FilterIdle
    /\ BuilderIdle /\ ParamIdle /\ CamIdle /\ SubhaloIdle /\ LineIdle /\ GenIdle

InitOfSuite ==
    IntersectIdle /\ ModelIdle /\ SuiteInit /\ FilterIdle
    /\ BuilderIdle /\ ParamIdle /\ CamIdle /\ SubhaloIdle /\ LineIdle /\ GenIdle

InitOfFilter ==
    IntersectIdle /\ ModelIdle /\ SuiteIdle /\ FilterInit
    /\ BuilderIdle /\ ParamIdle /\ CamIdle /\ SubhaloIdle /\ LineIdle /\ GenIdle

InitOfBuilders ==
    IntersectIdle /\ ModelIdle /\ SuiteIdle /\ FilterIdle
    /\ BuilderIdle /\ ParamIdle /\ CamIdle /\ SubhaloIdle /\ LineIdle /\ GenIdle

InitOfParam ==
    IntersectIdle /\ ModelIdle /\ SuiteIdle /\ FilterIdle
    /\ BuilderIdle /\ ParamIdle /\ CamIdle /\ SubhaloIdle /\ LineIdle /\ GenIdle

InitOfCAM ==
    IntersectIdle /\ ModelIdle /\ SuiteIdle /\ FilterIdle
    /\ BuilderIdle /\ ParamIdle /\ CamIdle /\ SubhaloIdle /\ LineIdle /\ GenIdle

InitOfSubhalo ==
    IntersectInit /\ ModelIdle /\ SuiteIdle /\ FilterIdle
    /\ BuilderIdle /\ ParamIdle /\ CamIdle /\ SubhaloIdle /\ LineIdle /\ GenIdle

InitOfLine ==
    IntersectIdle /\ ModelIdle /\ SuiteIdle /\ FilterIdle
    /\ BuilderIdle /\ ParamIdle /\ CamIdle /\ SubhaloIdle /\ LineInit /\ GenIdle

InitOfGen ==
    IntersectIdle /\ ModelIdle /\ SuiteIdle /\ FilterIdle
    /\ BuilderIdle /\ ParamIdle /\ CamIdle /\ SubhaloIdle /\ LineIdle /\ GenInit

SpecIntersect == InitOfIntersect /\ [][IntersectNext]_vars
SpecModel     == InitOfModel /\ [][ModelNext]_vars
SpecSuite     == InitOfSuite /\ [][SuiteNext]_vars
SpecFilter    == InitOfFilter /\ [][FilterNext]_vars
SpecBuilders  == InitOfBuilders /\ [][BuilderNext]_vars
SpecParam     == InitOfParam /\ [][ParamNext]_vars
SpecCAM       == InitOfCAM /\ [][CamNext]_vars
SpecSubhalo   == InitOfSubhalo /\ [][SubhaloNext]_vars
SpecLine      == InitOfLine /\ [][LineNext]_vars
SpecGen       == InitOfGen /\ [][GenNext]_vars

-----------------------------------------------------------------------------
(* Properties *)

IsTrained(m) == m # NoModel /\ m.trained

\* C1: for ascending id arrays A and B (B may be empty, ids of A may exceed every
\* id of B), intersect(A, B) returns a mask of length |A| whose i-th entry is
\* true iff A[i] occurs in B.
C1_IntersectMask ==
    (indx_ok # NotCalled /\ IsSorted(ids1) /\ IsSorted(ids2)) =>
        /\ indx_ok.err = "none"
        /\ Len(indx_ok.mask) = Len(ids1)
        /\ \A i \in 1..Len(ids1) :
              indx_ok.mask[i] <=> (\E j \in 1..Len(ids2) : ids2[j] = ids1[i])

\* C1 witness: a mask with a true and a false entry, for an A whose last id is
\* larger than every id of a non-empty B.
C1_Witness ==
    /\ indx_ok.err = "none"
    /\ Len(ids1) > 1 /\ Len(ids2) > 0
    /\ ids1[Len(ids1)] > ids2[Len(ids2)]
    /\ \E i \in 1..Len(ids1) : indx_ok.mask[i]
    /\ \E i \in 1..Len(ids1) : ~indx_ok.mask[i]

\* C2: on an instance on which no fit has succeeded, predict fails for every x,
\* also after failed fit calls: an untrained instance rejects every predict,
\* and only a fit call that returns makes an instance trained.
C2_UntrainedPredictFails ==
    /\ [](model # NoModel /\ ~model.trained =>
             \A x \in XArrays : Predict(model, x).err # "none")
    /\ [](result.op = "predict" /\ ~model.trained => result.err # "none")
    /\ [][~IsTrained(model) /\ IsTrained(model') =>
             result'.op = "fit" /\ result'.err = "none"]_vars

\* C2 witness: predict was refused on an untrained instance that holds the
\* quantile transformers a failed fit left behind, for an x of the right shape.
C2_Witness ==
    /\ result.op = "predict" /\ result.err = "AssertionError" /\ result.valid
    /\ model # NoModel /\ ~model.trained
    /\ model.qt_x # NoQT

\* C3: once a fit has succeeded, predict on an x with the model's feature count
\* and no missing values returns one prediction per row; every attribute that
\* _predict reads was stored by _fit.
C3_TrainedPredictSucceeds ==
    (result.op = "predict" /\ IsTrained(model) /\ result.valid) =>
        (result.err = "none" /\ result.pred.n = result.rows)

\* C4: a fit whose arguments violate a precondition (x not 2-dimensional, wrong
\* column count, y neither 1-dimensional nor single-column, row counts differ,
\* a missing value) is rejected, and only a fit that passes them succeeds.
C4_InvalidFitRejected ==
    result.op = "fit" => (result.err = "none" => result.valid)

\* C5: a fit call that fails leaves the instance as it was: trained, qt_x, qt_y
\* and every fitted attribute.
C5_FailedFitNoEffect ==
    [][(result'.op = "fit" /\ result'.err # "none") => model' = model]_vars

\* C6: use_qt and use_logs are mutually exclusive: a constructor call with both
\* is rejected and no instance has both flags set.
C6_ExclusiveTransforms ==
    /\ model # NoModel => ~(model.use_qt /\ model.use_logs)
    /\ (result.op = "init" /\ ~result.valid) => (result.err # "none" /\ model = NoModel)

\* C6 witness: a constructor call with both flags was refused by the assertion.
C6_Witness ==
    result.op = "init" /\ ~result.valid /\ result.err = "AssertionError"

\* C7: with use_qt, predict applies the qt_x and qt_y stored by the most recent
\* successful fit (the one that stored the fitted attributes), and returns
\* predictions in the scale of y.
C7_PredictUsesLastFit ==
    (result.op = "predict" /\ result.err = "none" /\ model.use_qt) =>
        /\ result.pred.fit = {result.pred.qt_x}
        /\ result.pred.fit = {result.pred.qt_y}
        /\ result.pred.scale = "raw"

\* The entry's keyword arguments are not a dict the variant's constructor
\* accepts.
MalformedKwargs(e) ==
    \/ ~e.kwargs_is_dict
    \/ /\ e.model \in Variants
       /\ \/ ~(DOMAIN e.kwargs \subseteq InitParams(e.model))
          \/ ~(RequiredParams(e.model) \subseteq DOMAIN e.kwargs)
          \/ ~ExclusiveFlags(e.kwargs)

BadEntry(e) ==
    e.model \notin Variants \/ e.n_features # e.x.cols \/ MalformedKwargs(e)

\* C8: when training_suite returns, the mapping has exactly the run names of
\* data as keys and each value is a trained instance of the entry's variant,
\* built with the entry's n_features and kwargs and fit on the entry's (x, y).
C8_SuiteReturnsTrainedModels ==
    pc = "done" =>
        /\ returned.err = "none"
        /\ DOMAIN returned.value = DOMAIN data
        /\ \A name \in DOMAIN data :
              LET m == returned.value[name]
                  e == data[name]
              IN  /\ m.trained
                  /\ m.variant = e.model
                  /\ m.n_features = e.n_features
                  /\ m.use_qt = (Kw(e.kwargs, "use_qt", 0) = 1)
                  /\ m.use_logs = (Kw(e.kwargs, "use_logs", 0) = 1)
                  /\ \A a \in FitStores(m.variant) : m.attrs[a] = e.y.tag
                  /\ m.use_qt => (m.qt_x.fit_on = e.x.tag /\ m.qt_y.fit_on = e.y.tag)

\* C8 witness: the suite returned two models of different variants, one of
\* them with the quantile transform.
C8_Witness ==
    /\ pc = "done" /\ Len(returned.value) = 2
    /\ returned.value[1].variant # returned.value[2].variant
    /\ returned.value[2].use_qt

\* C9: if an entry has an unknown model name, an n_features that differs from
\* the column count of its x, or malformed keyword arguments, training_suite
\* ends in an error and returns no mapping: the models of the other entries
\* never reach the caller.
C9_BadEntryNoMapping ==
    (\E name \in DOMAIN data : BadEntry(data[name])) =>
        /\ pc # "done"
        /\ returned.value = <<>>
        /\ returned.err # "none"
        /\ (pc = "train" => cursor <= Len(data))

\* C9 witness: the call failed on the malformed keyword arguments of the second
\* entry after the model of the first entry had been trained.
C9_Witness ==
    /\ pc = "failed" /\ returned.err = "TypeError"
    /\ Len(trained_models) = 1
    /\ MalformedKwargs(data[2]) /\ ~BadEntry(data[1])

\* C10: applying a HaloFilter returns a new object and leaves the source
\* object's rows and name as they were; the result carries the filter's name;
\* copy=False is refused and produces nothing.
C10_FilterDoesNotMutate ==
    call.op = "call" =>
        /\ hcat[1] = call.src
        /\ call.copy => /\ call.err = "none"
                        /\ new_hcat \in 2..Len(hcat)
                        /\ hcat[new_hcat].name = call.name
        /\ ~call.copy => /\ call.err = "NotImplementedError"
                         /\ new_hcat = 0
                         /\ Len(hcat) = 1

\* C10 witness: a filter that drops a row was applied to a catalog of two rows.
C10_Witness ==
    /\ call.op = "call" /\ call.err = "none"
    /\ Len(hcat[1].cat) = 2
    /\ Len(hcat[new_hcat].cat) = 1
    /\ hcat[new_hcat].name # hcat[1].name

\* The row satisfies every predicate of the filter.
SatisfiesAll(filters, row) ==
    \A k \in 1..Len(filters) : Holds(filters[k].ft, row[filters[k].param])

\* The items of the dict in the opposite order.
ReverseItems(filters) == [k \in 1..Len(filters) |-> filters[Len(filters) + 1 - k]]

\* C11: the filtered catalog holds exactly the rows of the input that satisfy
\* every predicate of the filter, in their original order, whichever order the
\* keys are applied in; a filter of always-true predicates returns the rows
\* unchanged.
C11_FilterIsConjunction ==
    (call.op = "call" /\ call.err = "none") =>
        LET src == call.src.cat
            out == hcat[new_hcat].cat
        IN  /\ out = SelectSeq(src, LAMBDA row : SatisfiesAll(call.filters, row))
            /\ out = filter_cat(ReverseItems(call.filters), src)
            /\ (\A k \in 1..Len(call.filters) : call.filters[k].ft = "always")
                  => out = src

\* C11 witness: a filter with two keys, upid first, kept only the second of two
\* rows: the first row passes the first key and fails the second.
C11_Witness ==
    /\ call.op = "call" /\ call.err = "none"
    /\ Len(call.filters) = 2 /\ call.filters[1].param = "upid"
    /\ Len(call.src.cat) = 2
    /\ hcat[new_hcat].cat = <<call.src.cat[2]>>
    /\ Holds(call.filters[1].ft, call.src.cat[1].upid)
    /\ ~Holds(call.filters[2].ft, call.src.cat[1].mvir)

\* The closure stored under a key of the dict that was built.
FtOf(b, param) ==
    b.filters[CHOOSE k \in 1..Len(b.filters) : b.filters[k].param = param].ft

Keys(b) == {b.filters[k].param : k \in 1..Len(b.filters)}

UpidValues == {Num(n) : n \in -2..MaxId} \cup {PosInf, NegInf, NaN}

\* C12: get_default_filters returns a dict with exactly the keys mvir and upid;
\* its upid predicate keeps exactly upid == -1 when subhalos is false and
\* exactly upid >= 0 when it is true, so no value is kept under both settings.
C12_DefaultFilters ==
    built.fn = "get_default_filters" =>
        /\ built.err = "none"
        /\ Len(built.filters) = 2 /\ Keys(built) = {"mvir", "upid"}
        /\ \A x \in UpidValues :
              /\ CallFt(FtOf(built, "upid"), x) <=>
                    IF built.args.subhalos THEN x = PosInf \/ (IsFinite(x) /\ x.n >= 0)
                    ELSE x = Num(-1)
              /\ ~(/\ CallFt(FtOf(built, "upid"), x)
                   /\ CallFt(FtOf(get_default_filters(built.args.particle_mass,
                                                      ~built.args.subhalos), "upid"), x))
        /\ applied.key = "upid" =>
              \A i \in 1..Len(applied.x) :
                 applied.mask[i] <=>
                    IF built.args.subhalos THEN Ge(applied.x[i], Num(0))
                    ELSE applied.x[i] = Num(-1)

\* C12 witness: with subhalos true the upid predicate was applied to a distinct
\* halo and a subhalo, and kept only the subhalo.
C12_Witness ==
    /\ built.fn = "get_default_filters" /\ built.args.subhalos
    /\ applied.key = "upid"
    /\ applied.x = <<Num(-1), Num(0)>>
    /\ applied.mask = <<FALSE, TRUE>>

\* C13: the predicate of particle_mass_filter keeps a halo if and only if its
\* mvir is strictly greater than 1000 times particle_mass, whatever subhalos is.
C13_ParticleMassCut ==
    (built.fn = "particle_mass_filter" /\ applied.key = "mvir") =>
        \A i \in 1..Len(applied.x) :
           applied.mask[i] <=>
              MassGt(applied.x[i], Times1e3(built.args.particle_mass))

C16_CatalogMassFilter ==
    built.fn = "catalog_mass_filter" =>
        IF built.args.catalog_name \in {"Bolshoi", "BolshoiP"}
        THEN /\ built.err = "none"
             /\ Len(built.filters) = 1 /\ Keys(built) = {"mvir"}
             /\ built.filters = catalog_mass_filter("Bolshoi").filters
             /\ \A a \in MassValues, b \in MassValues :
                   (CallFt(FtOf(built, "mvir"), a) /\ ~MassGt(b, a))
                      => CallFt(FtOf(built, "mvir"), b)
             /\ \E a \in MassValues : ~CallFt(FtOf(built, "mvir"), a)
        ELSE /\ built.err # "none"
             /\ built.filters = <<>>

\* C16 witness: a catalog name that is not one of the two failed.
C16_Witness ==
    /\ built.fn = "catalog_mass_filter"
    /\ built.args.catalog_name = "MDPL2"
    /\ built.err = "NotImplementedError"

\* C17: once a get_values call has returned, every later get_values call on
\* the same Param returns the array the first one returned, whichever catalog
\* it is given.
C17_GetValuesCaches ==
    (pcall.op = "get_values" /\ pcall.err = "none" /\ first_got # None) =>
        pcall.values = first_got

\* C18: constructing a Param with a key that is not an entry of the registry
\* raises KeyError and yields no object; keys are matched exactly, so Xoff and
\* xoff are different entries and Mvir or XOFF are no entries.
C18_UnknownKeyRejected ==
    pcall.op = "init" =>
        IF pcall.arg \in RegistryKeys
        THEN /\ pcall.err = "none"
             /\ hparam.key = pcall.arg
             /\ hparam.derive = DeriveReads(pcall.arg)
             /\ hparam.values = None
        ELSE /\ pcall.err = "KeyError"
             /\ hparam = NoParam

\* C18 witness: a key that differs from an entry only in letter case was
\* refused.
C18_Witness ==
    /\ pcall.op = "init" /\ pcall.arg = "Mvir"
    /\ pcall.err = "KeyError"
    /\ hparam = NoParam

\* The two arrays rank their rows in the same order.
SameOrder(an, y) ==
    \A i \in 1..Len(an), j \in 1..Len(an) : (an[i] < an[j]) <=> (y[i] < y[j])

\* C19: for a CAM with cam_order = +1 fit on data whose rank statistic and y
\* increase strictly in the same order, predict returns for each training
\* statistic the y paired with it, the smallest y for an input below the
\* smallest training statistic and the largest y for an input above the largest.
C19_CamRoundTrip ==
    (/\ cam_call.op = "predict"
     /\ cam # NoCam /\ cam.trained /\ cam.cam_order = 1
     /\ SameOrder(cam.train.an, cam.train.y)) =>
        LET an == cam.train.an
            y  == cam.train.y
            x  == cam_call.x
        IN  /\ cam_call.err = "none"
            /\ Len(cam_call.out) = Len(x)
            /\ \A i \in 1..Len(x) :
                  /\ \A j \in 1..Len(an) : x[i] = an[j] => cam_call.out[i] = Rat(y[j], 1)
                  /\ (\A j \in 1..Len(an) : x[i] < an[j]) =>
                        cam_call.out[i] = Rat(Sort(y)[1], 1)
                  /\ (\A j \in 1..Len(an) : x[i] > an[j]) =>
                        cam_call.out[i] = Rat(Sort(y)[Len(y)], 1)

\* C19 witness: predict was called on an array that holds every training
\* statistic, a value below them and a value above them, after a fit on three
\* rows that were not given in ascending order.
C19_Witness ==
    /\ cam_call.op = "predict" /\ cam_call.err = "none"
    /\ cam.cam_order = 1
    /\ Len(cam.train.an) = 3 /\ cam.train.an[1] > cam.train.an[2]
    /\ SameOrder(cam.train.an, cam.train.y)
    /\ \A j \in 1..3 : \E i \in 1..Len(cam_call.x) : cam_call.x[i] = cam.train.an[j]
    /\ \E i \in 1..Len(cam_call.x) : \A j \in 1..3 : cam_call.x[i] < cam.train.an[j]
    /\ \E i \in 1..Len(cam_call.x) : \A j \in 1..3 : cam_call.x[i] > cam.train.an[j]

\* C20: a CAM fit on n >= 1 rows sorts y ascending for cam_order = +1 and
\* descending for cam_order = -1, and pairs the i-th sorted y and the i-th
\* smallest rank statistic (i = 0..n-1) with the mark (i + 1/2) / n, so the marks
\* increase strictly and lie strictly between 0 and 1; any other cam_order is
\* rejected at construction.
C20_CamMarks ==
    /\ (cam_call.op = "init" /\ cam_call.arg \notin {-1, 1}) =>
          (cam_call.err # "none" /\ cam = NoCam)
    /\ cam_call.op = "fit" =>
          LET n     == cam_call.rows
              marks == cam.an_to_mark.y
              ys    == cam.mark_to_Y.y
              ans   == cam.an_to_mark.x
          IN  /\ cam_call.err = "none"
              /\ Len(marks) = n /\ Len(ys) = n /\ Len(ans) = n
              /\ cam.mark_to_Y.x = marks
              /\ ys = Rats(Scale(cam.cam_order, Sort(Scale(cam.cam_order, cam.train.y))))
              /\ ans = Rats(Sort(cam.train.an))
              /\ \A i \in 1..n - 1 :
                    /\ cam.cam_order = 1 => ~RLt(ys[i + 1], ys[i])
                    /\ cam.cam_order = -1 => ~RLt(ys[i], ys[i + 1])
                    /\ RLt(ans[i], ans[i + 1])
                    /\ RLt(marks[i], marks[i + 1])
              /\ \A i \in 1..n :
                    /\ marks[i] = Rat(2 * (i - 1) + 1, 2 * n)
                    /\ RLt(Rat(0, 1), marks[i]) /\ RLt(marks[i], Rat(1, 1))

\* C21: no call on an unsorted id array yields a result: intersect fails by
\* assertion when either array is not ascending, so does a filter built by
\* get_id_filter from an unsorted list or array of ids when it is applied to a
\* catalog, and so does create_subhalo_cat for unsorted host_ids.
C21_UnsortedRejected ==
    /\ (indx_ok # NotCalled /\ (~IsSorted(ids1) \/ ~IsSorted(ids2))) =>
           (indx_ok.err = "AssertionError" /\ indx_ok.mask = <<>>)
    /\ (id_call.op = "call" /\ ~IsSorted(ids2)) =>
           (id_call.err = "AssertionError" /\ id_call.cat = <<>>)
    /\ (subcat.op = "call" /\ ~IsSorted(ids1)) =>
           (subcat.err = "AssertionError" /\ subcat.rows = <<>>)

\* C21 witness: a filter built from an unsorted list of ids failed by assertion
\* on a catalog with several halos whose own ids are ascending.
C21_Witness ==
    /\ id_call.op = "call" /\ id_call.kind = "list"
    /\ ~IsSorted(ids2) /\ IsSorted(ids1) /\ Len(ids1) > 1
    /\ id_call.err = "AssertionError"

\* C22: when training_suite fails because of an invalid entry (unknown model
\* name, n_features that differs from the column count of x, malformed keyword
\* arguments), no model of any entry has been constructed and fit by then: the
\* invalid entry is found before the training loop trains anything.
C22_ValidatedBeforeTraining ==
    (pc = "failed" /\ (cursor = 0 \/ BadEntry(data[cursor]))) =>
        trained_models = <<>>

\* The rows of a table, each as the tuple of its entries.
TableRows(cat) ==
    IF cat.columns = <<>> THEN <<>>
    ELSE [i \in 1..Len(cat.columns[1]) |->
             [k \in 1..Len(cat.columns) |-> cat.columns[k][i]]]

\* C23: a ProgenitorLine is finalized at most once and stays finalized; add is
\* accepted before finalize and appends its tuple; every add and finalize
\* call on a finalized line is rejected; the table of a finalized line holds
\* exactly the tuples that were added, in the order they were added, and never
\* changes again.
C23_FinalizeOnce ==
    [][/\ (~pline.finalized /\ line_call'.op = "add") =>
              (line_call'.err = "none" /\ added' = Append(added, line_call'.arg))
       /\ pline.finalized =>
              /\ line_call'.err = "AssertionError"
              /\ pline'.finalized
              /\ pline'.cat = pline.cat
              /\ added' = added
       /\ pline'.finalized => TableRows(pline'.cat) = added']_vars

\* C23 witness: an add call was rejected on a finalized line whose table holds
\* two different tuples.
C23_Witness ==
    /\ pline.finalized /\ Len(added) = 2 /\ added[1] # added[2]
    /\ pline.cat.colnames = ColNames
    /\ TableRows(pline.cat) = added
    /\ line_call.op = "add" /\ line_call.err = "AssertionError"

\* The tree-root block that starts with the header at line i of file f: the
\* lines up to the next header or the end of the file.
BlockAt(f, i) ==
    LET later == { j \in i + 1..Len(f) : f[j].kind = "root" }
        last  == IF later = {} THEN Len(f)
                 ELSE (CHOOSE j \in later : \A k \in later : j <= k) - 1
    IN  SubSeq(f, i, last)

\* The block is marked as an expected failure.
IsFailure(block) == \E j \in 1..Len(block) : block[j].kind = "weird"

\* The finalized line that holds the halo rows of a block, in file order.
LineOf(block) ==
    LET halos == SelectSeq(block, LAMBDA l : l.kind = "halo")
        rows  == [j \in 1..Len(halos) |-> HaloTuple(halos[j].fields)]
    IN  [root_id |-> block[1].id, cat |-> Table(rows, ColNames), colnames |-> ColNames,
         rows |-> rows, finalized |-> TRUE]

\* One line for each block of f from line i on that is not an expected failure.
RECURSIVE LinesFrom(_, _)
LinesFrom(f, i) ==
    IF i > Len(f) THEN <<>>
    ELSE (IF f[i].kind = "root" /\ ~IsFailure(BlockAt(f, i))
          THEN <<LineOf(BlockAt(f, i))>> ELSE <<>>) \o LinesFrom(f, i + 1)

\* A file made of tree-root headers followed by halo rows: every header is
\* followed by its halo rows or by one expected-failure line, the blocks are
\* separated by empty lines, summary lines stand outside the blocks, and no
\* line is malformed. The last block need not be followed by an empty line.
WellFormed(f) ==
    \A i \in 1..Len(f) :
        CASE f[i].kind = "root" ->
               /\ i < Len(f) /\ f[i + 1].kind \in {"halo", "weird"}
               /\ i > 1 => f[i - 1].kind \in {"empty", "spaces", "top", "total", "count"}
               /\ \A j \in 1..i - 1 :
                      f[j].kind = "root" =>
                          \E k \in j + 1..i - 1 : Rstrip(f[k]).kind = "empty"
          [] f[i].kind = "halo" -> i > 1 /\ f[i - 1].kind \in {"root", "halo"}
          [] f[i].kind = "weird" -> i > 1 /\ f[i - 1].kind = "root" /\ f[i].id = 0
          [] f[i].kind = "other" -> FALSE
          [] OTHER -> TRUE

IsPrefix(s, t) == Len(s) <= Len(t) /\ s = SubSeq(t, 1, Len(s))

\* C24: on a file made of tree-root headers followed by halo rows the generator
\* raises nothing, what it has yielded is at every moment a prefix of the
\* finalized lines of the blocks that are not expected failures, each holding
\* its block's halo rows in file order, and when it ends it has yielded all of
\* them, the line of the last block included whether or not an empty line
\* follows that block.
C24_YieldsEveryBlock ==
    (gen # "idle" /\ WellFormed(pf)) =>
        /\ gen \in {"running", "done"}
        /\ IsPrefix(yielded, LinesFrom(pf, 1))
        /\ gen = "done" => yielded = LinesFrom(pf, 1)

=============================================================================
